---- MODULE Spec2Model ----
(***************************************************************************)
(* nexus-mcp: the batch orchestration layer of src/nexus_mcp/server.py     *)
(* (batch_prompt, _assign_labels) and the result types of                  *)
(* src/nexus_mcp/types.py (AgentTaskResult, MultiPromptResponse).          *)
(*                                                                         *)
(* Python values are modelled as follows.                                  *)
(*   str            a TLA+ string; f-strings are built with \o / ToString  *)
(*   str | None     a tuple: <<>> is None, <<s>> is the string s           *)
(*   list           a sequence                                             *)
(*   pydantic model a record of its fields                                 *)
(*   exception      a record [exc |-> class name, message |-> str(e)]      *)
(* A constructor whose validator rejects its arguments yields the          *)
(* exception record instead of the model record.                           *)
(***************************************************************************)
EXTENDS Integers, Sequences, FiniteSets, TLC

VARIABLES
    tasks,            \* batch_prompt argument: list[AgentTask]
    max_concurrency,  \* batch_prompt argument: int
    pc,               \* position of the batch_prompt coroutine
    labelled,         \* server.py:93  labelled = _assign_labels(tasks)
    semaphore,        \* server.py:94  asyncio.Semaphore: [value, waiters]
    progress,         \* the injected progress sink: calls received so far
    task_pc,          \* position of each _run_single coroutine
    task_outcome,     \* what building the runner / awaiting run() gave task i
    task_result,      \* value each _run_single coroutine returned
    completed,        \* indices of the tasks in the order they finished
    response,         \* what batch_prompt returned (or raised)
    call,             \* a direct call of a constructor / pure function
    ret,              \* its return value
    frame             \* the locals of a call of AbstractRunner.run in progress

vars == <<tasks, max_concurrency, pc, labelled, semaphore, progress,
          task_pc, task_outcome, task_result, completed, response, call, ret,
          frame>>

----------------------------------------------------------------------------
(* Bounds of the model *)

MaxTasks == 3

MaxConcurrency == 2

MaxLabelTasks == 3

MaxResults == 2

----------------------------------------------------------------------------
(* Optional values *)

None == <<>>

Some(v) == <<v>>

IsNone(o) == o = <<>>

Val(o) == o[1]

Count(s, P(_)) == Cardinality({i \in DOMAIN s : P(s[i])})

----------------------------------------------------------------------------
(* types.py *)

Exception(cls, msg) == [exc |-> cls, message |-> msg]

IsException(v) == "exc" \in DOMAIN v

\* str(e) for an exception built as Exception.__init__(message)
str(e) == e.message

AgentTask(agent, prompt, label, model) ==
    [agent |-> agent, prompt |-> prompt, label |-> label, model |-> model]

\* task.model_copy(update={"label": label})
model_copy_label(task, label) == [task EXCEPT !.label = Some(label)]

\* Variant: the validator checks only that something is set.
rejects_neither_only(self) ==
    IF IsNone(self.output) /\ IsNone(self.error)
    THEN Exception("ValidationError", "one of output or error must be set")
    ELSE self

exactly_one_of_output_or_error(self) ==
    IF ~IsNone(self.output) /\ ~IsNone(self.error)
    THEN Exception("ValidationError", "output and error are mutually exclusive")
    ELSE IF IsNone(self.output) /\ IsNone(self.error)
    THEN Exception("ValidationError", "one of output or error must be set")
    ELSE self

AgentTaskResult(label, output, error) ==
    exactly_one_of_output_or_error(
        [label |-> label, output |-> output, error |-> error])

success(self) == ~IsNone(self.output)

\* Variant: the counts passed to the constructor are kept.
compute_counts_skipped(self) == self

compute_counts(self) ==
    LET total     == Len(self.results)
        succeeded == Count(self.results, success)
    IN  [results   |-> self.results,
         total     |-> total,
         succeeded |-> succeeded,
         failed    |-> total - succeeded]

MultiPromptResponse(results, total, succeeded, failed) ==
    compute_counts([results |-> results, total |-> total,
                    succeeded |-> succeeded, failed |-> failed])

----------------------------------------------------------------------------
(* server.py: _assign_labels *)

\* f"{base}-{n}"
Suffixed(base, n) == base \o "-" \o ToString(n)

\* n = 2; while f"{base}-{n}" in reserved: n += 1
RECURSIVE ProbeSuffix(_, _, _)
ProbeSuffix(base, n, reserved) ==
    IF Suffixed(base, n) \in reserved
    THEN ProbeSuffix(base, n + 1, reserved)
    ELSE n

FirstSuffix == 2

\* Variant: a single pass, no explicit label reserved ahead of the loop.
ExplicitLabels_none(ts) == {}

\* reserved = {t.label for t in tasks if t.label is not None}
ExplicitLabels(ts) == {Val(ts[i].label) : i \in {j \in DOMAIN ts : ~IsNone(ts[j].label)}}

\* One iteration of the for loop: the label the task gets.
AutoLabel(task, reserved) ==
    IF task.agent \notin reserved
    THEN task.agent
    ELSE Suffixed(task.agent, ProbeSuffix(task.agent, FirstSuffix, reserved))

\* Variant: the loop labels every task anew, an explicit label included.
RECURSIVE AssignLoop_relabel(_, _, _, _)
AssignLoop_relabel(ts, i, reserved, result) ==
    IF i > Len(ts) THEN result
    ELSE LET label == AutoLabel(ts[i], reserved)
         IN  AssignLoop_relabel(ts, i + 1, reserved \cup {label},
                                Append(result, model_copy_label(ts[i], label)))

\* The for loop from position i on, with the labels reserved so far.
RECURSIVE AssignLoop(_, _, _, _)
AssignLoop(ts, i, reserved, result) ==
    IF i > Len(ts) THEN result
    ELSE IF ~IsNone(ts[i].label)
    THEN AssignLoop(ts, i + 1, reserved, Append(result, ts[i]))
    ELSE LET label == AutoLabel(ts[i], reserved)
         IN  AssignLoop(ts, i + 1, reserved \cup {label},
                        Append(result, model_copy_label(ts[i], label)))

assign_labels(ts) == AssignLoop(ts, 1, ExplicitLabels(ts), <<>>)

----------------------------------------------------------------------------
(* types.py: PromptRequest; runners/factory.py: RunnerFactory *)

\* Field(..., min_length=1) on prompt, Field(default=None, min_length=1) on model
PromptRequest(agent, prompt, model) ==
    IF prompt = "" \/ (~IsNone(model) /\ Val(model) = "")
    THEN Exception("ValidationError", "1 validation error for PromptRequest")
    ELSE [agent |-> agent, prompt |-> prompt, model |-> model]

_REGISTRY == {"gemini"}

\* What the host offers a runner constructor: the CLI binary is on PATH or not.
Environments == {"ok", "cli_missing"}

\* exceptions.py: CLINotFoundError
CLINotFoundError(cli_name) ==
    [exc |-> "CLINotFoundError", message |-> "CLI not found in PATH: " \o cli_name,
     cli_name |-> cli_name]

\* Variant: the constructor does not look for the CLI.
GeminiRunner_undetected(env) == [runner |-> "GeminiRunner"]

\* GeminiRunner.__init__: detect_cli decides whether a runner is built
GeminiRunner(env) ==
    IF env = "cli_missing"
    THEN CLINotFoundError("gemini")
    ELSE [runner |-> "GeminiRunner"]

\* exceptions.py: UnsupportedAgentError
UnsupportedAgentError(agent) ==
    [exc |-> "UnsupportedAgentError", message |-> "Unsupported agent: " \o agent,
     agent |-> agent]

\* Variant: the runner is built before the name is looked up.
RunnerFactory_create_eager(agent, env) ==
    IF IsException(GeminiRunner(env)) THEN GeminiRunner(env)
    ELSE IF agent \notin _REGISTRY THEN UnsupportedAgentError(agent)
    ELSE GeminiRunner(env)

RunnerFactory_create(agent, env) ==
    IF agent \notin _REGISTRY
    THEN UnsupportedAgentError(agent)
    ELSE GeminiRunner(env)

\* The work a call of create does, in order: the lookup, and for a name
\* found the constructor's detect_cli and, with the CLI found,
\* get_cli_version, which runs "<cli> --version" in a subprocess.
create_steps(agent, env) ==
    <<"_REGISTRY.get">>
        \o (IF agent \notin _REGISTRY THEN <<>>
            ELSE <<"GeminiRunner.__init__", "detect_cli">>
                     \o (IF env = "cli_missing" THEN <<>>
                         ELSE <<"get_cli_version", "subprocess.run">>))

\* What awaiting runner.run(request) can produce: an AgentResponse (only its
\* output is read by batch_prompt) or one of the errors run() raises.
RunOutcomes ==
    { [output |-> "out"], [output |-> ""],
      Exception("SubprocessTimeoutError", "Command timed out after 600s: gemini") }

----------------------------------------------------------------------------
(* server.py: batch_prompt *)

\* asyncio.Semaphore(value)
Semaphore(value) ==
    IF value < 0
    THEN Exception("ValueError", "Semaphore initial value must be >= 0")
    ELSE [value |-> value, waiters |-> <<>>]

locked(sem) == sem.value = 0 \/ sem.waiters # <<>>

\* Variant: a slot is taken whether or not one is free.
acquire_unguarded(sem, i) == <<[sem EXCEPT !.value = @ - 1], "acquired">>

\* async with semaphore, entry: take a slot at once, or queue behind the
\* earlier waiters. Yields <<semaphore', position of the coroutine>>.
acquire(sem, i) ==
    IF ~locked(sem)
    THEN <<[sem EXCEPT !.value = @ - 1], "acquired">>
    ELSE <<[sem EXCEPT !.waiters = Append(@, i)], "waiting">>

\* Variant: the slot is kept on the way out.
release_kept(sem) == <<sem, {}>>

\* async with semaphore, exit: give the slot back; the longest waiting
\* coroutine, if any, is handed the slot. Yields <<semaphore', woken>>.
release(sem) ==
    IF sem.waiters # <<>>
    THEN <<[sem EXCEPT !.waiters = Tail(@)], {Head(sem.waiters)}>>
    ELSE <<[sem EXCEPT !.value = @ + 1], {}>>

set_total(p, n) == [p EXCEPT !.set_total = Append(@, n)]

increment(p, i, n) == [p EXCEPT !.increments = @ + n, !.by_task[i] = @ + n]

\* Variant: no except clause, the exception leaves the coroutine.
on_exception_reraise(p, i, label, e) == <<p, e>>

\* Variant: the except clause reports no progress.
on_exception_silent(p, i, label, e) ==
    <<p, AgentTaskResult(label, None, Some(str(e)))>>

\* except Exception as e: (server.py:112-114)
on_exception(p, i, label, e) ==
    <<increment(p, i, 1), AgentTaskResult(label, None, Some(str(e)))>>

\* Variant: an empty output is taken for a missing one.
on_response_truthy(p, i, label, resp) ==
    IF resp.output = ""
    THEN <<increment(p, i, 1), AgentTaskResult(label, None, Some("empty response"))>>
    ELSE <<increment(p, i, 1), AgentTaskResult(label, Some(resp.output), None)>>

\* After response = await runner.run(request) (server.py:110-114): the
\* increment and the result construction are inside the try block.
on_response(p, i, label, resp) ==
    LET p1 == increment(p, i, 1)
        r  == AgentTaskResult(label, Some(resp.output), None)
    IN  IF IsException(r) THEN on_exception(p1, i, label, r) ELSE <<p1, r>>

\* Variant: the values in the order in which the awaitables finished.
gather_as_completed(returned, order) == [k \in 1..Len(order) |-> returned[order[k]]]

\* asyncio.gather(*coros): the values in the order of the awaitables
gather(returned, order) == [k \in 1..Len(order) |-> returned[k]]

InFlight == {i \in DOMAIN task_pc : task_pc[i] \in {"acquired", "running"}}

\* The coroutine of task i ends with `r` after its execution gave `outcome`:
\* the slot is released on the way out. A coroutine that ends with an
\* exception makes the gather (server.py:116) raise it in batch_prompt.
Finish(i, outcome, p, r) ==
    LET rel == release(semaphore)
    IN  /\ progress' = p
        /\ task_outcome' = [task_outcome EXCEPT ![i] = outcome]
        /\ task_result' = [task_result EXCEPT ![i] = r]
        /\ IF IsException(r)
           THEN pc' = "raised" /\ response' = r
           ELSE UNCHANGED <<pc, response>>
        /\ semaphore' = rel[1]
        /\ task_pc' = [j \in DOMAIN task_pc |->
                          IF j = i THEN "done"
                          ELSE IF j \in rel[2] THEN "acquired"
                          ELSE task_pc[j]]
        /\ completed' = Append(completed, i)

Idle == [fn |-> "none"]

\* batch_prompt up to the gather (server.py:93-96)
BatchStart ==
    /\ pc = "start"
    /\ LET sem == Semaphore(max_concurrency)
           lab == assign_labels(tasks)
       IN  IF IsException(sem)
           THEN /\ pc' = "raised"
                /\ response' = sem
                /\ labelled' = lab
                /\ UNCHANGED <<semaphore, progress, task_pc, task_outcome,
                               task_result>>
           ELSE /\ pc' = "gather"
                /\ labelled' = lab
                /\ semaphore' = sem
                /\ progress' = set_total(progress, Len(lab))
                /\ task_pc' = [i \in DOMAIN lab |-> "pending"]
                /\ task_outcome' = [i \in DOMAIN lab |-> None]
                /\ task_result' = [i \in DOMAIN lab |-> None]
                /\ UNCHANGED response
    /\ UNCHANGED <<tasks, max_concurrency, completed, call, ret, frame>>

\* _run_single(task) starts: async with semaphore (server.py:99). The event
\* loop starts the gathered coroutines in the order they were passed.
TaskAcquire(i) ==
    /\ pc = "gather"
    /\ i \in DOMAIN task_pc
    /\ task_pc[i] = "pending"
    /\ \A j \in 1..(i - 1) : task_pc[j] # "pending"
    /\ LET a == acquire(semaphore, i)
       IN  /\ semaphore' = a[1]
           /\ task_pc' = [task_pc EXCEPT ![i] = a[2]]
    /\ UNCHANGED <<tasks, max_concurrency, pc, labelled, progress,
                   task_outcome, task_result, completed, response, call, ret, frame>>

\* Variant: the runner is built before the request.
TaskConstruct_runner_first(i, env) ==
    /\ pc = "gather"
    /\ i \in DOMAIN task_pc
    /\ task_pc[i] = "acquired"
    /\ LET task    == labelled[i]
           request == PromptRequest(task.agent, task.prompt, task.model)
           runner  == RunnerFactory_create(task.agent, env)
       IN  IF IsException(runner)
           THEN LET f == on_exception(progress, i, Val(task.label), runner)
                IN  Finish(i, runner, f[1], f[2])
           ELSE IF IsException(request)
           THEN LET f == on_exception(progress, i, Val(task.label), request)
                IN  Finish(i, request, f[1], f[2])
           ELSE /\ task_pc' = [task_pc EXCEPT ![i] = "running"]
                /\ UNCHANGED <<pc, semaphore, progress, task_outcome,
                               task_result, completed, response>>
    /\ UNCHANGED <<tasks, max_concurrency, labelled, call, ret, frame>>

\* Inside the slot: build the request and the runner and call run()
\* (server.py:100-109), or fail on the way (server.py:112-114).
TaskConstruct(i, env) ==
    /\ pc = "gather"
    /\ i \in DOMAIN task_pc
    /\ task_pc[i] = "acquired"
    /\ LET task    == labelled[i]
           request == PromptRequest(task.agent, task.prompt, task.model)
           runner  == RunnerFactory_create(task.agent, env)
       IN  IF IsException(request)
           THEN LET f == on_exception(progress, i, Val(task.label), request)
                IN  Finish(i, request, f[1], f[2])
           ELSE IF IsException(runner)
           THEN LET f == on_exception(progress, i, Val(task.label), runner)
                IN  Finish(i, runner, f[1], f[2])
           ELSE /\ task_pc' = [task_pc EXCEPT ![i] = "running"]
                /\ UNCHANGED <<pc, semaphore, progress, task_outcome,
                               task_result, completed, response>>
    /\ UNCHANGED <<tasks, max_concurrency, labelled, call, ret, frame>>

\* await runner.run(request) ends (server.py:109-114)
TaskRun(i, outcome) ==
    /\ pc = "gather"
    /\ i \in DOMAIN task_pc
    /\ task_pc[i] = "running"
    /\ LET label == Val(labelled[i].label)
           f == IF IsException(outcome)
                THEN on_exception(progress, i, label, outcome)
                ELSE on_response(progress, i, label, outcome)
       IN  Finish(i, outcome, f[1], f[2])
    /\ UNCHANGED <<tasks, max_concurrency, labelled, call, ret, frame>>

\* Every gathered coroutine returned: build the response (server.py:116-117)
BatchReturn ==
    /\ pc = "gather"
    /\ \A i \in DOMAIN task_pc : task_pc[i] = "done"
    /\ response' = MultiPromptResponse(gather(task_result, completed), 0, 0, 0)
    /\ pc' = "returned"
    /\ UNCHANGED <<tasks, max_concurrency, labelled, semaphore, progress,
                   task_pc, task_outcome, task_result, completed, call, ret, frame>>

----------------------------------------------------------------------------
(* Inputs *)

SeqsUpTo(S, n) == UNION {[1..k -> S] : k \in 0..n}

\* An unlabelled task of the registered agent, one of an agent that is not
\* registered, and one that claims the label "gemini" and has a model that
\* AgentTask accepts and PromptRequest rejects.
BatchTasks ==
    { AgentTask("gemini", "p", None, None),
      AgentTask("codex", "p", None, None),
      AgentTask("gemini", "p", Some("gemini"), Some("")) }

Concurrencies == (0 - 1)..MaxConcurrency

NoProgress == [set_total |-> <<>>, increments |-> 0, by_task |-> [i \in 1..MaxTasks |-> 0]]

BatchInit ==
    /\ tasks \in SeqsUpTo(BatchTasks, MaxTasks)
    /\ max_concurrency \in Concurrencies
    /\ pc = "start"
    /\ labelled = <<>>
    /\ semaphore = None
    /\ progress = NoProgress
    /\ task_pc = <<>>
    /\ task_outcome = <<>>
    /\ task_result = <<>>
    /\ completed = <<>>
    /\ response = None
    /\ call = Idle
    /\ ret = None
    /\ frame = None

BatchNext ==
    \/ BatchStart
    \/ \E i \in 1..MaxTasks : TaskAcquire(i)
    \/ \E i \in 1..MaxTasks, env \in Environments : TaskConstruct(i, env)
    \/ \E i \in 1..MaxTasks, outcome \in RunOutcomes : TaskRun(i, outcome)
    \/ BatchReturn

----------------------------------------------------------------------------
(* server.py: prompt_agent, beside batch_prompt called with its arguments as
   the only task *)

DEFAULT_MAX_CONCURRENCY == 3

\* The progress reports of prompt_agent are kept in frame, the ones of the
\* batch in progress. The task number of a report is 1.
SendReport(p, n) == increment(p, 1, n)

\* prompt_agent raises e
SendRaise(p, e) ==
    /\ frame' = [pc |-> "raised", progress |-> p]
    /\ ret' = e

\* prompt_agent up to `await runner.run(request)` (server.py:148-164)
SendStart ==
    /\ call.fn = "prompt_agent"
    /\ frame.pc = "start"
    /\ \E task \in {tasks[1]}, p \in {SendReport(set_total(frame.progress, 100), 10)} :
          IF IsException(PromptRequest(task.agent, task.prompt, task.model))
          THEN SendRaise(p, PromptRequest(task.agent, task.prompt, task.model))
          ELSE IF IsException(RunnerFactory_create(task.agent, call.env))
          THEN SendRaise(SendReport(p, 20), RunnerFactory_create(task.agent, call.env))
          ELSE /\ frame' = [pc |-> "running", progress |-> SendReport(SendReport(p, 20), 30)]
               /\ ret' = ret
    /\ UNCHANGED <<tasks, max_concurrency, pc, labelled, semaphore, progress, task_pc,
                   task_outcome, task_result, completed, response, call>>

\* `await runner.run(request)` ends (server.py:164-168)
SendRun ==
    /\ call.fn = "prompt_agent"
    /\ frame.pc = "running"
    /\ IF IsException(call.outcome)
       THEN SendRaise(frame.progress, call.outcome)
       ELSE /\ frame' = [pc |-> "returned", progress |-> SendReport(frame.progress, 40)]
            /\ ret' = Some(call.outcome.output)
    /\ UNCHANGED <<tasks, max_concurrency, pc, labelled, semaphore, progress, task_pc,
                   task_outcome, task_result, completed, response, call>>

\* The arguments of prompt_agent, as an AgentTask
SendTasks ==
    { AgentTask(agent, "p", None, model) :
        agent \in {"gemini", "codex"}, model \in {None, Some(""), Some("m")} }

\* prompt_agent and batch_prompt are called with the same arguments on the
\* same host, where run() ends the same way.
SendInit ==
    /\ tasks \in {<<task>> : task \in SendTasks}
    /\ max_concurrency = DEFAULT_MAX_CONCURRENCY
    /\ pc = "start"
    /\ labelled = <<>>
    /\ semaphore = None
    /\ progress = NoProgress
    /\ task_pc = <<>>
    /\ task_outcome = <<>>
    /\ task_result = <<>>
    /\ completed = <<>>
    /\ response = None
    /\ call \in [fn : {"prompt_agent"}, env : Environments, outcome : RunOutcomes]
    /\ ret = None
    /\ frame = [pc |-> "start", progress |-> NoProgress]

NextSend ==
    \/ SendStart
    \/ SendRun
    \/ BatchStart
    \/ TaskAcquire(1)
    \/ TaskConstruct(1, call.env)
    \/ TaskRun(1, call.outcome)
    \/ BatchReturn

SpecSend == SendInit /\ [][NextSend]_vars

----------------------------------------------------------------------------
(* Direct calls of the constructors of types.py and of _assign_labels *)

NoBatch ==
    /\ tasks = <<>>
    /\ max_concurrency = 0
    /\ labelled = <<>>
    /\ semaphore = None
    /\ progress = NoProgress
    /\ task_pc = <<>>
    /\ task_outcome = <<>>
    /\ task_result = <<>>
    /\ completed = <<>>
    /\ response = None
    /\ frame = None

OptionalStrings == {None, Some(""), Some("text")}

ResultCalls ==
    [fn : {"AgentTaskResult"}, label : {"gemini"},
     output : OptionalStrings, error : OptionalStrings]

\* The AgentTaskResult values that exist: the ones the constructor accepts.
Results ==
    {r \in [label : {"gemini", "x"}, output : OptionalStrings, error : OptionalStrings] :
        ~IsException(exactly_one_of_output_or_error(r))}

SuppliedCounts == {0, 1, 7}

ResponseCalls ==
    [fn : {"MultiPromptResponse"}, results : SeqsUpTo(Results, MaxResults),
     total : SuppliedCounts, succeeded : SuppliedCounts, failed : SuppliedCounts]

LabelTasks ==
    {AgentTask(a, "p", l, None) :
        a \in {"gemini", "gemini-2"},
        l \in {None, Some("gemini"), Some("gemini-2"), Some("gemini-3")}}

LabelCalls == [fn : {"_assign_labels"}, tasks : SeqsUpTo(LabelTasks, MaxLabelTasks)]

TypesInit ==
    /\ NoBatch
    /\ pc = "call"
    /\ call \in ResultCalls \cup ResponseCalls
    /\ ret = None

LabelsInit ==
    /\ NoBatch
    /\ pc = "call"
    /\ call \in LabelCalls
    /\ ret = None

Return(value) ==
    /\ ret' = value
    /\ pc' = "called"
    /\ UNCHANGED <<tasks, max_concurrency, labelled, semaphore, progress, task_pc,
                   task_outcome, task_result, completed, response, call, frame>>

CallAgentTaskResult ==
    /\ pc = "call"
    /\ call.fn = "AgentTaskResult"
    /\ Return(AgentTaskResult(call.label, call.output, call.error))

CallMultiPromptResponse ==
    /\ pc = "call"
    /\ call.fn = "MultiPromptResponse"
    /\ Return(MultiPromptResponse(call.results, call.total, call.succeeded, call.failed))

CallAssignLabels ==
    /\ pc = "call"
    /\ call.fn = "_assign_labels"
    /\ Return(assign_labels(call.tasks))

----------------------------------------------------------------------------
(* Python str, bytes and values *)

\* text[i], counted from 1
Char(text, i) == SubSeq(text, i, i)

\* text[i:j] of Python for 0 <= i, j <= len(text): the characters i+1..j
Slice(text, i, j) == SubSeq(text, i + 1, j)

\* c * n, built from its two halves
RECURSIVE Repeat(_, _)
Repeat(c, n) ==
    IF n <= 0 THEN ""
    ELSE IF n = 1 THEN c
    ELSE Repeat(c, n \div 2) \o Repeat(c, n - (n \div 2))

\* str.encode("utf-8") of one character: a byte is named by its ASCII
\* character, or by its two hexadecimal digits when it is above 0x7F.
EncodeChar(c) ==
    IF c = "é" THEN <<"C3", "A9">>
    ELSE IF c = "€" THEN <<"E2", "82", "AC">>
    ELSE <<c>>

\* The bytes of a text are the bytes of its two halves.
RECURSIVE encode(_)
encode(text) ==
    IF text = "" THEN <<>>
    ELSE IF Len(text) = 1 THEN EncodeChar(text)
    ELSE encode(SubSeq(text, 1, Len(text) \div 2))
             \o encode(SubSeq(text, Len(text) \div 2 + 1, Len(text)))

\* bytes.decode("utf-8", errors="ignore"): a byte that does not start a
\* complete character is dropped.
RECURSIVE decode_ignore(_)
decode_ignore(bytes) ==
    IF bytes = <<>> THEN ""
    ELSE IF Len(bytes[1]) = 1
    THEN bytes[1] \o decode_ignore(Tail(bytes))
    ELSE IF Len(bytes) >= 2 /\ SubSeq(bytes, 1, 2) = <<"C3", "A9">>
    THEN "é" \o decode_ignore(SubSeq(bytes, 3, Len(bytes)))
    ELSE IF Len(bytes) >= 3 /\ SubSeq(bytes, 1, 3) = <<"E2", "82", "AC">>
    THEN "€" \o decode_ignore(SubSeq(bytes, 4, Len(bytes)))
    ELSE decode_ignore(Tail(bytes))

\* Python values, tagged with type(x).__name__
PyStr(s) == [t |-> "str", v |-> s]

PyInt(n) == [t |-> "int", v |-> n]

PyBool(b) == [t |-> "bool", v |-> b]

PyNone == [t |-> "NoneType", v |-> "None"]

PyList(items) == [t |-> "list", v |-> items]

PyDict(items) == [t |-> "dict", v |-> items]

EmptyDict == PyDict(<<>>)

isinstance(x, type) == x.t = type

\* d[key] = value
dict_set(d, key, value) ==
    PyDict([k \in (DOMAIN d.v) \cup {key} |-> IF k = key THEN value ELSE d.v[k]])

\* d.get(key, default)
dict_get(d, key, default) == IF key \in DOMAIN d.v THEN d.v[key] ELSE default

\* types.py: AgentResponse; metadata: dict[str, Any]
AgentResponse(agent, output, raw_output, metadata) ==
    IF ~isinstance(metadata, "dict")
    THEN Exception("ValidationError", "1 validation error for AgentResponse")
    ELSE [agent |-> agent, output |-> output, raw_output |-> raw_output,
          metadata |-> metadata]

----------------------------------------------------------------------------
(* config.py: get_global_output_limit *)

Digits == "0123456789"

IsDigit(c) == \E d \in 1..Len(Digits) : Char(Digits, d) = c

DigitValue(c) == (CHOOSE d \in 1..Len(Digits) : Char(Digits, d) = c) - 1

RECURSIVE AllDigits(_)
AllDigits(text) ==
    text = "" \/ (IsDigit(Char(text, 1)) /\ AllDigits(SubSeq(text, 2, Len(text))))

RECURSIVE DigitsValue(_, _)
DigitsValue(text, acc) ==
    IF text = "" THEN acc
    ELSE DigitsValue(SubSeq(text, 2, Len(text)),
                     acc * Len(Digits) + DigitValue(Char(text, 1)))

\* int(raw) of a text that is a decimal numeral with an optional sign, or is
\* no numeral at all (ValueError, returned as None).
int(raw) ==
    LET signed == raw # "" /\ Char(raw, 1) \in {"-", "+"}
        body   == IF signed THEN SubSeq(raw, 2, Len(raw)) ELSE raw
    IN  IF body = "" \/ ~AllDigits(body) THEN None
        ELSE IF signed /\ Char(raw, 1) = "-"
        THEN Some(0 - DigitsValue(body, 0))
        ELSE Some(DigitsValue(body, 0))

DefaultOutputLimit == "50000"

\* os.getenv(name, default) on the environment of the process
getenv(environ, name, default) ==
    IF IsNone(environ[name]) THEN default ELSE Val(environ[name])

\* The limit as [value |-> n], or the ConfigurationError raised.
get_global_output_limit(environ) ==
    LET raw == getenv(environ, "NEXUS_OUTPUT_LIMIT_BYTES", DefaultOutputLimit)
    IN  IF IsNone(int(raw))
        THEN Exception("ConfigurationError",
                       "Invalid output limit value: '" \o raw \o "'")
        ELSE [value |-> Val(int(raw))]

----------------------------------------------------------------------------
(* runners/base.py: AbstractRunner._apply_output_limit *)

suffix == "\n\n[Output truncated - see full output at temp file]"

max(a, b) == IF a >= b THEN a ELSE b

\* output_bytes[:content_limit]
Prefix(bytes, n) == SubSeq(bytes, 1, IF n <= Len(bytes) THEN n ELSE Len(bytes))

\* content_limit = max(0, limit - suffix_bytes)
content_limit(limit, suffix_bytes) == max(0, limit - suffix_bytes)

\* temp_file_name is the name NamedTemporaryFile(prefix="nexus_mcp_output_",
\* suffix=".txt") chose for the file holding the full output.
_apply_output_limit(resp, environ, temp_file_name) ==
    LET limit == get_global_output_limit(environ)
        output_bytes == encode(resp.output)
        output_size == Len(output_bytes)
    IN  IF IsException(limit) THEN limit
        ELSE IF output_size <= limit.value THEN resp
        ELSE LET suffix_bytes == Len(encode(suffix))
                 truncated_bytes ==
                     Prefix(output_bytes, content_limit(limit.value, suffix_bytes))
                 truncated_output == decode_ignore(truncated_bytes) \o suffix
                 m1 == dict_set(resp.metadata, "truncated", PyBool(TRUE))
                 m2 == dict_set(m1, "full_output_path", PyStr(temp_file_name))
                 m3 == dict_set(m2, "original_size_bytes", PyInt(output_size))
                 metadata ==
                     dict_set(m3, "truncated_size_bytes",
                              PyInt(Len(encode(truncated_output))))
             IN  AgentResponse(resp.agent, truncated_output,
                               resp.raw_output, metadata)

----------------------------------------------------------------------------
(* json.loads, for texts made of objects, arrays, strings, integers and
   true / false / null *)

\* s[i:i + 1], counted from 1: "" past the end of the text
At(text, i) == IF i \in 1..Len(text) THEN Char(text, i) ELSE ""

Whitespace == {" ", "\t", "\n", "\r"}

RECURSIVE SkipWs(_, _)
SkipWs(text, i) ==
    IF At(text, i) \in Whitespace THEN SkipWs(text, i + 1) ELSE i

\* A scan either fails or gives a value and the position after it.
Fail == [ok |-> FALSE]

Ok(value, pos) == [ok |-> TRUE, value |-> value, pos |-> pos]

\* The character an escape \c stands for; "" for no escape.
Unescape(c) ==
    IF c \in {"\"", "\\", "/"} THEN c
    ELSE IF c = "n" THEN "\n"
    ELSE IF c = "t" THEN "\t"
    ELSE IF c = "r" THEN "\r"
    ELSE ""

Max(S) == CHOOSE m \in S : \A x \in S : x <= m

Min(S) == CHOOSE m \in S : \A x \in S : m <= x

\* The number of backslashes that end just before position j of a string
\* whose opening quote is at position open.
BackslashRun(text, open, j) ==
    j - 1 - Max({k \in open..(j - 1) : Char(text, k) # "\\"})

\* The characters a string body stands for, its escapes replaced.
RECURSIVE Unescaped(_)
Unescaped(body) ==
    IF body = "" THEN ""
    ELSE IF Char(body, 1) = "\\"
    THEN Unescape(Char(body, 2)) \o Unescaped(SubSeq(body, 3, Len(body)))
    ELSE Char(body, 1) \o Unescaped(SubSeq(body, 2, Len(body)))

\* The string whose opening quote is before position i: it ends at the first
\* quote that no backslash escapes, and holds no control character and no
\* escape but the ones of Unescape.
ScanString(text, i) ==
    LET closing == {j \in i..Len(text) :
                       /\ Char(text, j) = "\""
                       /\ BackslashRun(text, i - 1, j) % 2 = 0}
        close   == Min(closing)
        body    == SubSeq(text, i, close - 1)
        escapes == {k \in i..(close - 1) :
                       /\ Char(text, k) = "\\"
                       /\ BackslashRun(text, i - 1, k) % 2 = 0}
    IN  IF closing = {} THEN Fail
        ELSE IF \E k \in i..(close - 1) : Char(text, k) \in {"\n", "\t", "\r"}
        THEN Fail
        ELSE IF \E k \in escapes : Unescape(Char(text, k + 1)) = ""
        THEN Fail
        ELSE Ok(PyStr(IF escapes = {} THEN body ELSE Unescaped(body)), close + 1)

RECURSIVE ScanDigits(_, _)
ScanDigits(text, i) ==
    IF At(text, i) # "" /\ IsDigit(At(text, i)) THEN ScanDigits(text, i + 1) ELSE i

\* -? (0 | [1-9][0-9]*)
ScanNumber(text, i) ==
    LET neg   == At(text, i) = "-"
        first == IF neg THEN i + 1 ELSE i
        end   == IF At(text, first) = "0" THEN first + 1 ELSE ScanDigits(text, first)
        n     == DigitsValue(SubSeq(text, first, end - 1), 0)
    IN  IF end = first THEN Fail
        ELSE Ok(PyInt(IF neg THEN 0 - n ELSE n), end)

StartsWith(text, i, word) ==
    /\ i + Len(word) - 1 <= Len(text)
    /\ SubSeq(text, i, i + Len(word) - 1) = word

RECURSIVE ScanValue(_, _)
RECURSIVE ScanMembers(_, _, _, _)
RECURSIVE ScanElements(_, _, _, _)

\* The object whose "{" (or whose last ",") is before position i.
ScanMembers(text, i, items, first) ==
    LET key   == ScanString(text, i + 1)
        colon == SkipWs(text, key.pos)
        val   == ScanValue(text, SkipWs(text, colon + 1))
        next  == SkipWs(text, val.pos)
        more  == dict_set(PyDict(items), key.value.v, val.value).v
    IN  IF first /\ At(text, i) = "}" THEN Ok(PyDict(items), i + 1)
        ELSE IF \/ At(text, i) # "\""
                \/ ~key.ok
                \/ At(text, colon) # ":"
                \/ ~val.ok
        THEN Fail
        ELSE IF At(text, next) = ","
        THEN ScanMembers(text, SkipWs(text, next + 1), more, FALSE)
        ELSE IF At(text, next) = "}" THEN Ok(PyDict(more), next + 1)
        ELSE Fail

\* The array whose "[" (or whose last ",") is before position i.
ScanElements(text, i, items, first) ==
    LET val  == ScanValue(text, i)
        next == SkipWs(text, val.pos)
        more == Append(items, val.value)
    IN  IF first /\ At(text, i) = "]" THEN Ok(PyList(items), i + 1)
        ELSE IF ~val.ok THEN Fail
        ELSE IF At(text, next) = ","
        THEN ScanElements(text, SkipWs(text, next + 1), more, FALSE)
        ELSE IF At(text, next) = "]" THEN Ok(PyList(more), next + 1)
        ELSE Fail

ScanValue(text, i) ==
    LET c == At(text, i)
    IN  IF c = "{" THEN ScanMembers(text, SkipWs(text, i + 1), <<>>, TRUE)
        ELSE IF c = "[" THEN ScanElements(text, SkipWs(text, i + 1), <<>>, TRUE)
        ELSE IF c = "\"" THEN ScanString(text, i + 1)
        ELSE IF c = "-" \/ (c # "" /\ IsDigit(c)) THEN ScanNumber(text, i)
        ELSE IF StartsWith(text, i, "true") THEN Ok(PyBool(TRUE), i + Len("true"))
        ELSE IF StartsWith(text, i, "false") THEN Ok(PyBool(FALSE), i + Len("false"))
        ELSE IF StartsWith(text, i, "null") THEN Ok(PyNone, i + Len("null"))
        ELSE Fail

\* The scanned value, unless the scan failed or text other than whitespace
\* follows it ("Extra data").
WholeText(text, val) ==
    IF ~val.ok THEN None
    ELSE IF SkipWs(text, val.pos) # Len(text) + 1 THEN None
    ELSE Some(val.value)

\* json.loads(text): Some(value), or None for json.JSONDecodeError
json_loads(text) == WholeText(text, ScanValue(text, SkipWs(text, 1)))

----------------------------------------------------------------------------
(* exceptions.py *)

\* ParseError(message, raw_output="")
ParseError(message, raw_output) ==
    [exc |-> "ParseError", message |-> message, raw_output |-> raw_output]

\* The parameters of SubprocessError.__init__ after self
SubprocessError_params == {"message", "stderr", "command", "returncode"}

\* SubprocessError(message, **kwargs): a keyword the signature does not have
\* is a TypeError of the call; a keyword left out takes its default.
SubprocessError(message, kwargs) ==
    IF ~(DOMAIN kwargs \subseteq SubprocessError_params)
    THEN Exception("TypeError",
                   "SubprocessError.__init__() got an unexpected keyword argument '"
                       \o (CHOOSE k \in DOMAIN kwargs : k \notin SubprocessError_params)
                       \o "'")
    ELSE [exc |-> "SubprocessError",
          message |-> message,
          stderr |-> IF "stderr" \in DOMAIN kwargs THEN kwargs.stderr ELSE "",
          command |-> IF "command" \in DOMAIN kwargs THEN kwargs.command ELSE None,
          returncode |-> IF "returncode" \in DOMAIN kwargs
                         THEN kwargs.returncode ELSE None]

----------------------------------------------------------------------------
(* runners/gemini.py: GeminiRunner *)

\* text.rfind(ch, 0, end): the last index below end, counted from 0, or -1
rfind(text, ch, end) ==
    Max({0 - 1} \cup {k \in 0..(end - 1) : Char(text, k + 1) = ch})

\* The number of positions i..last_close, counted from 0, that hold ch
CountIn(text, ch, i, last_close) ==
    Cardinality({k \in i..last_close : Char(text, k + 1) = ch})

\* for i in range(last_close, -1, -1): the first i at which depth returns to
\* 0, that is the highest i holding `open` with as many `open` as `close`
\* in text[i : last_close + 1]; -1 when the loop ends without one.
MatchingOpen(text, open, close, last_close) ==
    Max({0 - 1} \cup
        {i \in 0..last_close :
            /\ Char(text, i + 1) = open
            /\ CountIn(text, open, i, last_close) = CountIn(text, close, i, last_close)})

\* parsed if isinstance(parsed, dict) else None, for the result of json.loads
DictOrNone(parsed) ==
    IF ~IsNone(parsed) /\ isinstance(Val(parsed), "dict") THEN Val(parsed)
    ELSE PyNone

\* The body of `if depth == 0` of _extract_last_json_object
ObjectScan(text, last_close) ==
    LET i == MatchingOpen(text, "{", "}", last_close)
    IN  IF i = 0 - 1 THEN PyNone
        ELSE DictOrNone(json_loads(Slice(text, i, last_close + 1)))

_extract_last_json_object(text) ==
    IF text = "" THEN PyNone
    ELSE LET last_close == rfind(text, "}", Len(text))
         IN  IF last_close = 0 - 1 THEN PyNone
             ELSE ObjectScan(text, last_close)

\* parsed[0] if parsed is a non-empty list whose first element is a dict,
\* else None, for the result of json.loads
FirstDict(parsed) ==
    IF /\ ~IsNone(parsed)
       /\ isinstance(Val(parsed), "list")
       /\ Val(parsed).v # <<>>
       /\ isinstance(Val(parsed).v[1], "dict")
    THEN Val(parsed).v[1]
    ELSE PyNone

\* The candidate text[start : last_close + 1]; no candidate when start is -1
ArrayCandidate(text, start, last_close) ==
    IF start = 0 - 1 THEN PyNone
    ELSE FirstDict(json_loads(Slice(text, start, last_close + 1)))

RECURSIVE ArrayLoop(_, _)

\* return parsed[0], or search_end = last_close and the next turn of the loop
ArrayNext(text, last_close, found) ==
    IF isinstance(found, "NoneType") THEN ArrayLoop(text, last_close) ELSE found

\* while True of _extract_last_json_array
ArrayLoop(text, search_end) ==
    LET last_close == rfind(text, "]", search_end)
    IN  IF last_close = 0 - 1 THEN PyNone
        ELSE ArrayNext(text, last_close,
                       ArrayCandidate(text, MatchingOpen(text, "[", "]", last_close),
                                      last_close))

_extract_last_json_array(text) ==
    IF text = "" THEN PyNone ELSE ArrayLoop(text, Len(text))

\* Variant: only the whitespace at the start is removed.
RECURSIVE strip_leading(_)
strip_leading(text) ==
    IF text = "" THEN ""
    ELSE IF Char(text, 1) \in Whitespace
    THEN strip_leading(SubSeq(text, 2, Len(text)))
    ELSE text

\* str.strip()
RECURSIVE strip(_)
strip(text) ==
    IF text = "" THEN ""
    ELSE IF Char(text, 1) \in Whitespace THEN strip(SubSeq(text, 2, Len(text)))
    ELSE IF Char(text, Len(text)) \in Whitespace
    THEN strip(SubSeq(text, 1, Len(text) - 1))
    ELSE text

\* parse_output from `if not isinstance(data, dict) ...` on
ParseData(stdout, data) ==
    IF ~isinstance(data, "dict") \/ "response" \notin DOMAIN data.v
    THEN ParseError("Missing 'response' field in Gemini CLI output", stdout)
    ELSE LET response_text == data.v["response"]
         IN  IF ~isinstance(response_text, "str")
             THEN ParseError("'response' field must be a string, got "
                                 \o response_text.t, stdout)
             ELSE AgentResponse("gemini", strip(response_text.v), stdout,
                                dict_get(data, "stats", EmptyDict))

\* except json.JSONDecodeError: data is what _extract_last_json_object found
ParseExtracted(stdout, data) ==
    IF isinstance(data, "NoneType")
    THEN ParseError("Invalid JSON from Gemini CLI (stdout may contain non-JSON prefix)",
                    stdout)
    ELSE ParseData(stdout, data)

\* Variant: the extractor is also tried on valid JSON that is no mapping.
ParseLoaded_fallback(stdout, loaded) ==
    IF IsNone(loaded) \/ ~isinstance(Val(loaded), "dict")
    THEN ParseExtracted(stdout, _extract_last_json_object(stdout))
    ELSE ParseData(stdout, Val(loaded))

\* try: data = json.loads(stdout)
ParseLoaded(stdout, loaded) ==
    IF IsNone(loaded)
    THEN ParseExtracted(stdout, _extract_last_json_object(stdout))
    ELSE ParseData(stdout, Val(loaded))

parse_output(stdout, stderr) == ParseLoaded(stdout, json_loads(stdout))

\* str(x) inside an f-string, for a str, an int, a bool or None
format(x) ==
    IF isinstance(x, "str") THEN x.v
    ELSE IF isinstance(x, "int") THEN ToString(x.v)
    ELSE IF isinstance(x, "bool") THEN (IF x.v THEN "True" ELSE "False")
    ELSE "None"

\* message == "[object Object]"
eq_str(message, text) == isinstance(message, "str") /\ message.v = text

\* Variant: no error is taken for the artifact of a stringified object.
eq_one_never(code) == FALSE

\* code == 1, which True satisfies as well
eq_one(code) ==
    \/ isinstance(code, "int") /\ code.v = 1
    \/ isinstance(code, "bool") /\ code.v

\* None when the function returns, else the exception it raises.
\* if data is None: data = self._extract_last_json_array(stderr)
OrLastArray(data, stderr) ==
    IF isinstance(data, "NoneType") THEN _extract_last_json_array(stderr) ELSE data

\* if data is None: data = self._extract_last_json_object(stderr)
OrLastObject(data, stderr) ==
    IF isinstance(data, "NoneType") THEN _extract_last_json_object(stderr) ELSE data

\* _try_extract_error from `if data is None: return` on
ErrorOf(data, stdout, stderr, returncode, command) ==
    IF isinstance(data, "NoneType") THEN None
    ELSE LET error == dict_get(data, "error", PyNone)
         IN  IF ~isinstance(error, "dict") THEN None
             ELSE LET code    == dict_get(error, "code", PyStr("unknown"))
                      message == dict_get(error, "message", PyStr("unknown error"))
                      status  == dict_get(error, "status", PyStr(""))
                  IN  IF eq_one(code) /\ eq_str(message, "[object Object]")
                      THEN None
                      ELSE SubprocessError(
                               "Gemini API error " \o format(code) \o ": "
                                   \o format(message) \o " (" \o format(status) \o ")",
                               [stderr |-> stderr, stdout |-> stdout,
                                returncode |-> Some(returncode),
                                command |-> command])

_try_extract_error(stdout, stderr, returncode, command) ==
    ErrorOf(OrLastObject(OrLastArray(DictOrNone(json_loads(stdout)), stderr),
                         stderr),
            stdout, stderr, returncode, command)

\* Variant: the parsed response is returned without the recovery markers.
_recover_from_error_unmarked(stdout, stderr, returncode, command) ==
    LET resp == parse_output(stdout, stderr)
    IN  IF IsException(resp) /\ resp.exc = "ParseError"
        THEN _try_extract_error(stdout, stderr, returncode, command)
        ELSE resp

\* _recover_from_error after response = self.parse_output(stdout, stderr)
Recovered(resp, stdout, stderr, returncode, command) ==
    IF ~IsException(resp)
    THEN LET m1 == dict_set(resp.metadata, "recovered_from_error", PyBool(TRUE))
             m2 == dict_set(m1, "original_exit_code", PyInt(returncode))
             metadata == dict_set(m2, "stderr", PyStr(stderr))
         IN  AgentResponse(resp.agent, resp.output, resp.raw_output, metadata)
    ELSE IF resp.exc = "ParseError"
    THEN _try_extract_error(stdout, stderr, returncode, command)
    ELSE resp

\* None, the recovered AgentResponse, or the exception raised.
_recover_from_error(stdout, stderr, returncode, command) ==
    Recovered(parse_output(stdout, stderr), stdout, stderr, returncode, command)

\* "\n".join(f"- {path}" for path in request.file_refs)
RECURSIVE FileList(_)
FileList(file_refs) ==
    IF file_refs = <<>> THEN ""
    ELSE "- " \o file_refs[1]
             \o (IF Len(file_refs) > 1 THEN "\n" \o FileList(Tail(file_refs)) ELSE "")

\* x or y, and `if x:`, for x: str | None
Truthy(x) == ~IsNone(x) /\ Val(x) # ""

\* Variant: the default model of the runner goes before the model of the
\* request.
build_command_default_first(self, request) ==
    LET prompt == IF request.file_refs # <<>>
                  THEN request.prompt \o "\n\nFile references:\n"
                           \o FileList(request.file_refs)
                  ELSE request.prompt
        model  == IF Truthy(self.default_model) THEN self.default_model
                  ELSE request.model
    IN  <<self.cli_path, "-p", prompt>>
            \o (IF self.capabilities.supports_json
                THEN <<"--output-format", "json">> ELSE <<>>)
            \o (IF Truthy(model) THEN <<"--model", Val(model)>> ELSE <<>>)
            \o (IF request.execution_mode = "sandbox" THEN <<"--sandbox">>
                ELSE IF request.execution_mode = "yolo" THEN <<"--yolo">>
                ELSE <<>>)

\* GeminiRunner.build_command
build_command(self, request) ==
    LET prompt == IF request.file_refs # <<>>
                  THEN request.prompt \o "\n\nFile references:\n"
                           \o FileList(request.file_refs)
                  ELSE request.prompt
        model  == IF Truthy(request.model) THEN request.model ELSE self.default_model
    IN  <<self.cli_path, "-p", prompt>>
            \o (IF self.capabilities.supports_json
                THEN <<"--output-format", "json">> ELSE <<>>)
            \o (IF Truthy(model) THEN <<"--model", Val(model)>> ELSE <<>>)
            \o (IF request.execution_mode = "sandbox" THEN <<"--sandbox">>
                ELSE IF request.execution_mode = "yolo" THEN <<"--yolo">>
                ELSE <<>>)

----------------------------------------------------------------------------
(* exceptions.py: SubprocessTimeoutError; bytes.decode("utf-8") *)

\* SubprocessTimeoutError(message, *, timeout, stderr="", command=None,
\* returncode=None): the attributes of SubprocessError and the timeout.
SubprocessTimeoutError(message, kwargs) ==
    IF "timeout" \notin DOMAIN kwargs
    THEN Exception("TypeError",
                   "SubprocessTimeoutError.__init__() missing 1 required keyword-only argument: 'timeout'")
    ELSE [exc |-> "SubprocessTimeoutError",
          message |-> message,
          timeout |-> kwargs.timeout,
          stderr |-> IF "stderr" \in DOMAIN kwargs THEN kwargs.stderr ELSE "",
          command |-> IF "command" \in DOMAIN kwargs THEN kwargs.command ELSE None,
          returncode |-> IF "returncode" \in DOMAIN kwargs
                         THEN kwargs.returncode ELSE None]

\* The bytes 0x80..0xBF that the texts of the model hold
Continuation == {"A9", "82", "AC"}

\* The number of bytes of the character that byte b starts; 0 when b starts
\* no character (a continuation byte, or 0xFF).
Width(b) ==
    IF Len(b) = 1 THEN 1
    ELSE IF b = "C3" THEN 2
    ELSE IF b = "E2" THEN 3
    ELSE 0

\* How many of the n bytes after position p are continuation bytes, counted
\* up to the first that is not.
ContRun(bytes, p, n) ==
    Max({k \in 0..n : \A j \in 1..k :
            p + j <= Len(bytes) /\ bytes[p + j] \in Continuation})

\* The character whose bytes are bs
DecodeChar(bs) ==
    IF bs = <<"C3", "A9">> THEN "é"
    ELSE IF bs = <<"E2", "82", "AC">> THEN "€"
    ELSE bs[1]

\* What the decoder finds at position p: a character of `size` bytes, or an
\* error that covers `size` bytes.
DecodeAt(bytes, p) ==
    LET w == Width(bytes[p])
        r == IF w = 0 THEN 0 ELSE ContRun(bytes, p, w - 1)
    IN  IF w = 0
        THEN [ok |-> FALSE, size |-> 1, reason |-> "invalid start byte"]
        ELSE IF r = w - 1
        THEN [ok |-> TRUE, size |-> w, char |-> DecodeChar(SubSeq(bytes, p, p + r))]
        ELSE IF p + r = Len(bytes)
        THEN [ok |-> FALSE, size |-> r + 1, reason |-> "unexpected end of data"]
        ELSE [ok |-> FALSE, size |-> r + 1, reason |-> "invalid continuation byte"]

\* The position of the first error, 0 when the bytes are valid UTF-8
RECURSIVE FirstError(_, _)
FirstError(bytes, p) ==
    IF p > Len(bytes) THEN 0
    ELSE IF ~DecodeAt(bytes, p).ok THEN p
    ELSE FirstError(bytes, p + DecodeAt(bytes, p).size)

\* f"0x{b:02x}"
Hex(b) ==
    IF b = "FF" THEN "0xff"
    ELSE IF b = "C3" THEN "0xc3"
    ELSE IF b = "E2" THEN "0xe2"
    ELSE IF b = "A9" THEN "0xa9"
    ELSE IF b = "82" THEN "0x82"
    ELSE "0xac"

\* str(e) of the UnicodeDecodeError for the error at position p (from 1)
UnicodeDecodeError(bytes, p, error) ==
    IF error.size = 1
    THEN "'utf-8' codec can't decode byte " \o Hex(bytes[p]) \o " in position "
             \o ToString(p - 1) \o ": " \o error.reason
    ELSE "'utf-8' codec can't decode bytes in position " \o ToString(p - 1)
             \o "-" \o ToString(p + error.size - 2) \o ": " \o error.reason

\* bytes.decode("utf-8", errors="replace") from position p on: each error
\* becomes one U+FFFD.
RECURSIVE decode_replace_from(_, _)
decode_replace_from(bytes, p) ==
    IF p > Len(bytes) THEN ""
    ELSE (IF DecodeAt(bytes, p).ok THEN DecodeAt(bytes, p).char ELSE "�")
             \o decode_replace_from(bytes, p + DecodeAt(bytes, p).size)

decode_replace(bytes) == decode_replace_from(bytes, 1)

\* bytes.decode("utf-8"): the text, or the UnicodeDecodeError raised
DecodeFrom(bytes, p) ==
    IF p = 0 THEN [text |-> decode_replace(bytes)]
    ELSE Exception("UnicodeDecodeError",
                   UnicodeDecodeError(bytes, p, DecodeAt(bytes, p)))

decode(bytes) == DecodeFrom(bytes, FirstError(bytes, 1))

----------------------------------------------------------------------------
(* Direct calls of _apply_output_limit *)

MaxPad == 56

MaxLimit == 55

\* Limits below, at and above the byte length of the notice.
Limits == {0 - 1, 0, 1, 10} \cup 50..MaxLimit

Pads == {0, 1, 10, 11} \cup 48..MaxPad

\* Endings that put a two-byte and a three-byte character at the cut.
OutputTails == {"", "a", "é", "€", "é€", "€é", "a€"}

Outputs == {Repeat("x", k) \o tail : k \in Pads, tail \in OutputTails}

Environs ==
    [NEXUS_OUTPUT_LIMIT_BYTES :
        {None, Some("abc")} \cup {Some(ToString(n)) : n \in Limits}]

Metadatas == {EmptyDict, PyDict([models |-> PyInt(1)])}

TempFileNames == {"/tmp/nexus_mcp_output_a.txt", "/tmp/nexus_mcp_output_b.txt"}

LimitCalls ==
    [fn : {"_apply_output_limit"},
     response : {AgentResponse("gemini", o, "raw", m) : o \in Outputs, m \in Metadatas},
     environ : Environs]

LimitInit ==
    /\ NoBatch
    /\ pc = "call"
    /\ call \in LimitCalls
    /\ ret = None

CallApplyOutputLimit(temp_file_name) ==
    /\ pc = "call"
    /\ call.fn = "_apply_output_limit"
    /\ Return(_apply_output_limit(call.response, call.environ, temp_file_name))

NextLimit == \E name \in TempFileNames : CallApplyOutputLimit(name)

SpecLimit == LimitInit /\ [][NextLimit]_vars

----------------------------------------------------------------------------
(* process.py: run_subprocess *)

\* The variables of batch_prompt, which no other call touches
BatchVars == <<tasks, max_concurrency, labelled, semaphore, progress, task_pc,
               task_outcome, task_result, completed, response>>

\* types.py: SubprocessResult
SubprocessResult(stdout, stderr, returncode) ==
    [stdout |-> stdout, stderr |-> stderr, returncode |-> returncode]

\* What create_subprocess_exec does: it starts the process, or raises the
\* OSError of the errno that execve gave.
SpawnOutcomes == {"spawned", "ENOENT", "EACCES", "E2BIG", "ENOTDIR"}

\* The exception of asyncio.create_subprocess_exec for an errno
SpawnError(errno, command) ==
    IF errno = "ENOENT"
    THEN Exception("FileNotFoundError",
                   "[Errno 2] No such file or directory: '" \o command[1] \o "'")
    ELSE IF errno = "EACCES"
    THEN Exception("PermissionError",
                   "[Errno 13] Permission denied: '" \o command[1] \o "'")
    ELSE IF errno = "ENOTDIR"
    THEN Exception("NotADirectoryError",
                   "[Errno 20] Not a directory: '" \o command[1] \o "'")
    ELSE Exception("OSError",
                   "[Errno 7] Argument list too long: '" \o command[1] \o "'")

\* except FileNotFoundError / except PermissionError; any other exception
\* leaves run_subprocess as it is.
OnSpawnError(e, command) ==
    IF e.exc = "FileNotFoundError"
    THEN SubprocessError("Command not found: " \o command[1],
                         [stderr |-> str(e), command |-> Some(command)])
    ELSE IF e.exc = "PermissionError"
    THEN SubprocessError("Permission denied: " \o command[1],
                         [stderr |-> str(e), command |-> Some(command)])
    ELSE e

\* raise SubprocessTimeoutError(...) after kill() and wait()
TimedOut(command, timeout, returncode) ==
    SubprocessTimeoutError(
        "Command timed out after " \o ToString(timeout) \o "s: " \o command[1],
        [timeout |-> timeout, command |-> Some(command), returncode |-> returncode])

\* except UnicodeDecodeError as e
DecodeFailed(e, stderr_bytes, command) ==
    SubprocessError("Failed to decode subprocess output: " \o str(e),
                    [stderr |-> decode_replace(stderr_bytes),
                     command |-> Some(command)])

\* stderr = stderr_bytes.decode("utf-8"), then the SubprocessResult
DecodedStderr(stdout, stderr, stderr_bytes, command, returncode) ==
    IF IsException(stderr) THEN DecodeFailed(stderr, stderr_bytes, command)
    ELSE SubprocessResult(stdout.text, stderr.text, returncode)

\* stdout = stdout_bytes.decode("utf-8")
DecodedStdout(stdout, stderr_bytes, command, returncode) ==
    IF IsException(stdout) THEN DecodeFailed(stdout, stderr_bytes, command)
    ELSE DecodedStderr(stdout, decode(stderr_bytes), stderr_bytes, command,
                       returncode)

\* Lines 45-60: decode the output and return the result
Decoded(stdout_bytes, stderr_bytes, command, returncode) ==
    DecodedStdout(decode(stdout_bytes), stderr_bytes, command, returncode)

\* The exit status of a process that SIGKILL ended
SIGKILLED == 0 - 9

\* The exit status asyncio reports for a child whose status was collected
\* elsewhere before its watcher asked for it
UnknownChild == 255

\* process.kill(): on a closed transport it raises ProcessLookupError; on a
\* running process the signal ends it; on a process that has ended but whose
\* status the loop has not collected, Popen.poll() collects it and the loop's
\* watcher will find no child; on a process whose status the loop holds it
\* does nothing.
kill(process) ==
    IF process.state = "closed" THEN Exception("ProcessLookupError", "")
    ELSE IF process.state = "running"
    THEN [process EXCEPT !.state = "exited", !.status = Some(SIGKILLED)]
    ELSE IF process.state = "exited"
    THEN [process EXCEPT !.status = Some(UnknownChild)]
    ELSE process

\* Variant: the timeout error is raised without waiting for the killed process.
WaitReturns_unawaited(process) == TRUE

\* await process.wait() returns once the loop holds the exit status.
WaitReturns(process) == process.state \in {"reaped", "closed"}

\* run_subprocess returns value, or raises it.
ProcFinish(value, step) ==
    /\ ret' = value
    /\ pc' = "called"
    /\ frame' = [frame EXCEPT !.steps = Append(@, step)]
    /\ UNCHANGED <<BatchVars, call>>

\* process = await asyncio.create_subprocess_exec(*command, ...)
ProcSpawn ==
    /\ pc = "call"
    /\ call.fn = "run_subprocess"
    /\ IF call.spawn = "spawned"
       THEN /\ frame' = [process |-> [state |-> "running", status |-> None,
                                      returncode |-> None],
                         at_timeout |-> None,
                         steps |-> <<"create_subprocess_exec">>]
            /\ pc' = "communicate"
            /\ UNCHANGED <<BatchVars, call, ret>>
       ELSE /\ ret' = OnSpawnError(SpawnError(call.spawn, call.command), call.command)
            /\ pc' = "called"
            /\ frame' = [process |-> None, at_timeout |-> None,
                         steps |-> <<"create_subprocess_exec">>]
            /\ UNCHANGED <<BatchVars, call>>

\* The process ends by itself.
ProcessExits ==
    /\ call.fn = "run_subprocess"
    /\ pc \in {"communicate", "wait"}
    /\ frame.process.state = "running"
    /\ frame' = [frame EXCEPT !.process.state = "exited",
                              !.process.status = Some(call.process.returncode)]
    /\ UNCHANGED <<BatchVars, call, ret, pc>>

\* The loop's child watcher collects the exit status: process.returncode
ProcessReaped ==
    /\ call.fn = "run_subprocess"
    /\ pc \in {"communicate", "wait"}
    /\ frame.process.state = "exited"
    /\ frame' = [frame EXCEPT !.process.state = "reaped",
                              !.process.returncode = frame.process.status]
    /\ UNCHANGED <<BatchVars, call, ret, pc>>

\* The pipes are at their end and the exit status is known: the loop closes
\* the transport of the process.
TransportClosed ==
    /\ call.fn = "run_subprocess"
    /\ pc \in {"communicate", "wait"}
    /\ frame.process.state = "reaped"
    /\ frame' = [frame EXCEPT !.process.state = "closed"]
    /\ UNCHANGED <<BatchVars, call, ret, pc>>

\* process.communicate() returns the output, which is decoded and returned
\* (lines 28-32 and 45-60).
ProcCommunicate ==
    /\ pc = "communicate"
    /\ call.fn = "run_subprocess"
    /\ frame.process.state \in {"reaped", "closed"}
    /\ ProcFinish(Decoded(call.process.stdout, call.process.stderr, call.command,
                          Val(frame.process.returncode)),
                  "communicate")

\* except TimeoutError: process.kill(), then await process.wait()
ProcTimeout ==
    /\ pc = "communicate"
    /\ call.fn = "run_subprocess"
    /\ ~IsNone(call.timeout)
    /\ \E killed \in {kill(frame.process)} :
          IF IsException(killed)
          THEN /\ ret' = killed
               /\ pc' = "called"
               /\ frame' = [frame EXCEPT !.at_timeout = Some(frame.process.state),
                                         !.steps = @ \o <<"TimeoutError", "kill">>]
               /\ UNCHANGED <<BatchVars, call>>
          ELSE /\ frame' = [frame EXCEPT !.process = killed,
                                         !.at_timeout = Some(frame.process.state),
                                         !.steps = @ \o <<"TimeoutError", "kill">>]
               /\ pc' = "wait"
               /\ UNCHANGED <<BatchVars, call, ret>>

\* await process.wait() returns; raise SubprocessTimeoutError(...)
ProcWait ==
    /\ pc = "wait"
    /\ call.fn = "run_subprocess"
    /\ WaitReturns(frame.process)
    /\ ProcFinish(TimedOut(call.command, Val(call.timeout), frame.process.returncode),
                  "wait")

----------------------------------------------------------------------------
(* Calls of run_subprocess *)

\* The command of a default request, and one with a configured CLI path
ProcCommands ==
    { <<"gemini", "-p", "p">>,
      <<"/opt/gemini", "-p", "p", "--model", "gemini-2.5-pro", "--yolo">> }

\* timeout: float | None
Timeouts == {None, Some(600)}

\* Output that is UTF-8, and output that is not: a byte that starts no
\* character, and a character cut off.
OutputBytes == {encode("ok"), encode("é€"), <<"FF">>, <<"a", "C3">>}

\* What the started process writes and the status it ends with by itself
Processes == [stdout : OutputBytes, stderr : OutputBytes, returncode : {0, 1}]

ProcCalls ==
    [fn : {"run_subprocess"}, command : ProcCommands, timeout : Timeouts,
     spawn : SpawnOutcomes, process : Processes]

ProcInit ==
    /\ NoBatch
    /\ pc = "call"
    /\ call \in ProcCalls
    /\ ret = None

NextProc ==
    \/ ProcSpawn
    \/ ProcessExits
    \/ ProcessReaped
    \/ TransportClosed
    \/ ProcCommunicate
    \/ ProcTimeout
    \/ ProcWait

SpecProc == ProcInit /\ [][NextProc]_vars

----------------------------------------------------------------------------
(* runners/base.py: AbstractRunner.run, on a GeminiRunner *)

\* run() returns value, or raises it, after the step named.
RunFinish(value, step) ==
    /\ ret' = value
    /\ pc' = "called"
    /\ frame' = [frame EXCEPT !.steps = Append(@, step)]
    /\ UNCHANGED <<BatchVars, call>>

\* Step 1: command = self.build_command(request)
RunBuildCommand ==
    /\ pc = "call"
    /\ call.fn = "run"
    /\ frame' = [command |-> build_command(call.self, call.request),
                 result |-> None, response |-> None,
                 steps |-> <<"build_command">>]
    /\ pc' = "built"
    /\ UNCHANGED <<BatchVars, call, ret>>

\* self.timeout = get_global_timeout(), with NEXUS_TIMEOUT_SECONDS not set
get_global_timeout == 600

\* What run_subprocess(command, timeout=self.timeout) raises: the timeout
\* error, the errors of a command that cannot be started, the decode error,
\* and the exceptions it does not catch.
SubprocessFailures(command) ==
    { TimedOut(command, get_global_timeout, Some(SIGKILLED)),
      DecodeFailed(decode(<<"FF">>), <<"FF">>, command),
      kill([state |-> "closed", status |-> Some(0), returncode |-> Some(0)]) }
    \cup { OnSpawnError(SpawnError(errno, command), command) :
               errno \in SpawnOutcomes \ {"spawned"} }

\* Variant: a failed command is executed a second time.
RunSubprocess_retried(result) ==
    /\ pc = "built"
    /\ IF IsException(result)
       THEN RunFinish(result, "run_subprocess")
       ELSE /\ frame' = [frame EXCEPT
                            !.result = Some(result),
                            !.steps = IF result.returncode # 0
                                      THEN @ \o <<"run_subprocess", "run_subprocess">>
                                      ELSE Append(@, "run_subprocess")]
            /\ pc' = "executed"
            /\ UNCHANGED <<BatchVars, call, ret>>

\* Step 2: result = await run_subprocess(command, timeout=self.timeout);
\* an exception of run_subprocess leaves run() as it is.
RunSubprocess(result) ==
    /\ pc = "built"
    /\ IF IsException(result)
       THEN RunFinish(result, "run_subprocess")
       ELSE /\ frame' = [frame EXCEPT !.result = Some(result),
                                      !.steps = Append(@, "run_subprocess")]
            /\ pc' = "executed"
            /\ UNCHANGED <<BatchVars, call, ret>>

\* Variant: the recovered response is returned as it is.
RunContinue_unlimited(resp, step) == RunFinish(resp, step)

\* The response goes on to step 5.
RunContinue(resp, step) ==
    /\ frame' = [frame EXCEPT !.response = Some(resp), !.steps = Append(@, step)]
    /\ pc' = "limiting"
    /\ UNCHANGED <<BatchVars, call, ret>>

\* AbstractRunner._recover_from_error: no recovery
AbstractRunner_recover_from_error(stdout, stderr, returncode, command) == None

\* Variant: every runner recovers as GeminiRunner does.
self_recover_from_error_overridden(self, stdout, stderr, returncode, command) ==
    _recover_from_error(stdout, stderr, returncode, command)

\* self._recover_from_error(...): GeminiRunner's override, or the method
\* inherited from AbstractRunner
self_recover_from_error(self, stdout, stderr, returncode, command) ==
    IF self.recovery = "GeminiRunner"
    THEN _recover_from_error(stdout, stderr, returncode, command)
    ELSE AbstractRunner_recover_from_error(stdout, stderr, returncode, command)

\* Step 3: if result.returncode != 0
RunRecover ==
    /\ pc = "executed"
    /\ Val(frame.result).returncode # 0
    /\ \E result \in {Val(frame.result)} :
       \E recovered \in {self_recover_from_error(call.self, result.stdout,
                                                 result.stderr,
                                                 result.returncode, None)} :
           IF IsException(recovered)
           THEN RunFinish(recovered, "_recover_from_error")
           ELSE IF DOMAIN recovered = {}
           THEN RunFinish(SubprocessError(
                              "CLI command failed with exit code "
                                  \o ToString(result.returncode),
                              [stderr |-> result.stderr,
                               command |-> Some(frame.command),
                               returncode |-> Some(result.returncode)]),
                          "_recover_from_error")
           ELSE RunContinue(recovered, "_recover_from_error")

\* Step 4: response = self.parse_output(result.stdout, result.stderr)
RunParse ==
    /\ pc = "executed"
    /\ Val(frame.result).returncode = 0
    /\ \E result \in {Val(frame.result)} :
       \E resp \in {parse_output(result.stdout, result.stderr)} :
           IF IsException(resp)
           THEN RunFinish(resp, "parse_output")
           ELSE RunContinue(resp, "parse_output")

\* Step 5: return self._apply_output_limit(response)
RunApplyOutputLimit(temp_file_name) ==
    /\ pc = "limiting"
    /\ RunFinish(_apply_output_limit(Val(frame.response), call.environ,
                                     temp_file_name),
                 "_apply_output_limit")

----------------------------------------------------------------------------
(* Calls of run() *)

\* A response longer than the largest limit, ending in a two-byte character.
LongStdout ==
    "{\"response\": \"" \o Repeat("x", MaxPad) \o "é\", \"stats\": {\"models\": 1}}"

Stdouts ==
    {
      "{\"response\": \"hi\"}",
      "{\"response\": \" hi \\n\", \"stats\": {\"models\": 1}}",
      "{\"response\": \"ok\", \"error\": {\"code\": 429, \"message\": \"quota\", \"status\": \"RESOURCE_EXHAUSTED\"}}",
      "{\"response\": \"r\", \"stats\": {\"stderr\": \"s\", \"models\": 2}}",
      "Warning: deprecated\n{\"response\": \"noisy\"}",
      "{\"error\": {\"code\": 429, \"message\": \"quota\", \"status\": \"RESOURCE_EXHAUSTED\"}}",
      "{\"error\": {\"code\": 1, \"message\": \"[object Object]\"}}",
      "{\"error\": {}}",
      "{\"error\": \"boom\"}",
      "{\"foo\": 1}",
      "{\"response\": 42}",
      "{\"response\": \"x\", \"stats\": 5}",
      "[1, 2]",
      "not json",
      "",
      LongStdout }

Stderrs ==
    {
      "",
      "boom",
      "{\"error\": {\"code\": 500, \"message\": \"internal\", \"status\": \"INTERNAL\"}}",
      "log line\n[{\"error\": {\"code\": 503, \"message\": \"unavailable\", \"status\": \"UNAVAILABLE\"}}]",
      "Error: x\n{\"error\": {\"code\": 1, \"message\": \"[object Object]\"}}" }

ReturnCodes == {0, 1, 2}

SubprocessResults == [stdout : Stdouts, stderr : Stderrs, returncode : ReturnCodes]

\* Two GeminiRunners, and a runner that differs from the first in having
\* the _recover_from_error of AbstractRunner.
Runners ==
    { [cli_path |-> "gemini", capabilities |-> [supports_json |-> TRUE],
       default_model |-> None, recovery |-> "GeminiRunner"],
      [cli_path |-> "/opt/gemini", capabilities |-> [supports_json |-> FALSE],
       default_model |-> Some("gemini-2.5-flash"), recovery |-> "GeminiRunner"],
      [cli_path |-> "gemini", capabilities |-> [supports_json |-> TRUE],
       default_model |-> None, recovery |-> "AbstractRunner"] }

RunRequests ==
    { [agent |-> "gemini", prompt |-> "p", model |-> None,
       execution_mode |-> "default", file_refs |-> <<>>],
      [agent |-> "gemini", prompt |-> "p", model |-> Some("gemini-2.5-pro"),
       execution_mode |-> "yolo", file_refs |-> <<"a.py", "b.py">>] }

RunEnvirons ==
    [NEXUS_OUTPUT_LIMIT_BYTES : {None, Some(ToString(MaxLimit)), Some("abc")}]

RunCalls ==
    [fn : {"run"}, self : Runners, request : RunRequests, environ : RunEnvirons]

\* Step 2 with each outcome of run_subprocess for the command built
RunExecute ==
    /\ pc = "built"
    /\ \E result \in SubprocessResults \cup SubprocessFailures(frame.command) :
           RunSubprocess(result)

RunInit ==
    /\ NoBatch
    /\ pc = "call"
    /\ call \in RunCalls
    /\ ret = None

NextRun ==
    \/ RunBuildCommand
    \/ RunExecute
    \/ RunRecover
    \/ RunParse
    \/ \E name \in TempFileNames : RunApplyOutputLimit(name)

SpecRun == RunInit /\ [][NextRun]_vars

----------------------------------------------------------------------------
(* A runner built in one environment and run in later ones *)

\* config.py: get_global_timeout() on an environment: [value |-> n], or
\* the ConfigurationError raised
configured_timeout(environ) ==
    IF IsNone(int(getenv(environ, "NEXUS_TIMEOUT_SECONDS", ToString(get_global_timeout))))
    THEN Exception("ConfigurationError",
                   "Invalid timeout value: '"
                       \o getenv(environ, "NEXUS_TIMEOUT_SECONDS", "") \o "'")
    ELSE [value |-> Val(int(getenv(environ, "NEXUS_TIMEOUT_SECONDS",
                                   ToString(get_global_timeout))))]

\* config.py: get_agent_env("gemini", key, default): None, or Some(text)
get_agent_env(environ, key, default) ==
    IF IsNone(environ["NEXUS_GEMINI_" \o key]) THEN default
    ELSE environ["NEXUS_GEMINI_" \o key]

\* GeminiRunner.__init__ with the CLI found: the attributes of the runner,
\* or the ConfigurationError of get_global_timeout. built_in keeps the
\* environment of the construction.
GeminiRunner_init(environ) ==
    IF IsException(configured_timeout(environ)) THEN configured_timeout(environ)
    ELSE [timeout |-> configured_timeout(environ).value,
          cli_path |-> IF Truthy(get_agent_env(environ, "PATH", Some("gemini")))
                       THEN Val(get_agent_env(environ, "PATH", Some("gemini")))
                       ELSE "gemini",
          default_model |-> get_agent_env(environ, "MODEL", None),
          capabilities |-> [supports_json |-> TRUE],
          recovery |-> "GeminiRunner",
          built_in |-> environ]

\* What a run() of self in environ works with: the command built, the
\* timeout passed to run_subprocess, and the limit that _apply_output_limit
\* gets from get_global_output_limit() in each run.
RunUses(self, request, environ) ==
    [command |-> build_command(self, request),
     timeout |-> self.timeout,
     limit |-> get_global_output_limit(environ)]

ConfigValues ==
    [NEXUS_TIMEOUT_SECONDS |-> {None, Some("5"), Some("abc")},
     NEXUS_OUTPUT_LIMIT_BYTES |-> {None, Some("60")},
     NEXUS_GEMINI_PATH |-> {None, Some("/opt/gemini"), Some("")},
     NEXUS_GEMINI_MODEL |-> {None, Some("gemini-2.5-flash")}]

ConfigEnvirons ==
    [NEXUS_TIMEOUT_SECONDS : ConfigValues.NEXUS_TIMEOUT_SECONDS,
     NEXUS_OUTPUT_LIMIT_BYTES : ConfigValues.NEXUS_OUTPUT_LIMIT_BYTES,
     NEXUS_GEMINI_PATH : ConfigValues.NEXUS_GEMINI_PATH,
     NEXUS_GEMINI_MODEL : ConfigValues.NEXUS_GEMINI_MODEL]

\* runner = GeminiRunner()
ConfigConstruct ==
    /\ pc = "call"
    /\ call.fn = "GeminiRunner"
    /\ IF IsException(GeminiRunner_init(call.environ))
       THEN /\ ret' = GeminiRunner_init(call.environ)
            /\ pc' = "called"
            /\ frame' = frame
       ELSE /\ ret' = ret
            /\ pc' = "constructed"
            /\ frame' = [self |-> GeminiRunner_init(call.environ),
                         request |-> None, uses |-> None]
    /\ UNCHANGED <<BatchVars, call>>

\* The environment of the process changes: os.environ[name] = value, or
\* del os.environ[name]
ConfigSetenv(name, value) ==
    /\ pc = "constructed"
    /\ call.fn = "GeminiRunner"
    /\ value \in ConfigValues[name]
    /\ call' = [call EXCEPT !.environ[name] = value]
    /\ UNCHANGED <<BatchVars, pc, ret, frame>>

\* await runner.run(request)
ConfigRun(request) ==
    /\ pc = "constructed"
    /\ call.fn = "GeminiRunner"
    /\ frame' = [frame EXCEPT !.request = Some(request),
                              !.uses = Some(RunUses(frame.self, request, call.environ))]
    /\ UNCHANGED <<BatchVars, pc, ret, call>>

ConfigInit ==
    /\ NoBatch
    /\ pc = "call"
    /\ call \in [fn : {"GeminiRunner"}, environ : ConfigEnvirons]
    /\ ret = None

NextConfig ==
    \/ ConfigConstruct
    \/ \E name \in DOMAIN ConfigValues : \E value \in ConfigValues[name] :
          ConfigSetenv(name, value)
    \/ \E request \in RunRequests : ConfigRun(request)

SpecConfig == ConfigInit /\ [][NextConfig]_vars

----------------------------------------------------------------------------
(* Direct calls of parse_output *)

\* The stdouts of run(), and more: the example response, a response with
\* whitespace inside, responses that are whitespace, valid JSON of another
\* shape that holds a response object, noisy output around a response.
ParseStdouts ==
    Stdouts \cup
    { "{\"response\": \"  hi  \", \"stats\": {\"n\": 3}}",
      "{\"response\": \"\\n a b\\nc\\td \\r\\n\"}",
      "{\"response\": \" \\n \"}",
      "{\"response\": \"\", \"stats\": {}}",
      "{\"response\": \"r\", \"stats\": null}",
      "{\"response\": null}",
      "{\"response\": [\"a\"]}",
      "{\"Response\": \"a\"}",
      "[{\"response\": \"in\"}]",
      "{\"data\": {\"response\": \"in\"}}",
      "\"{\\\"response\\\": 1}\"",
      "null",
      "42",
      "true",
      "log\n{\"response\": \" a \\n\", \"stats\": {\"n\": 3}} trailing",
      "log\n{\"response\": 7}",
      "log {\"a\": 1}\n{\"response\": \"last\"}",
      "log {\"response\": \"first\"}\n{\"a\": 1}",
      "{\"response\": \"cut" }

ParseCalls == [fn : {"parse_output"}, stdout : ParseStdouts, stderr : {"", "boom"}]

CallParseOutput ==
    /\ pc = "call"
    /\ call.fn = "parse_output"
    /\ Return(parse_output(call.stdout, call.stderr))

----------------------------------------------------------------------------
(* Direct calls of build_command *)

\* GeminiRunner.__init__: cli_path, capabilities and default_model; the
\* default model is not configured, configured, or configured as "".
BuildRunners ==
    [cli_path : {"gemini", "/opt/gemini"},
     capabilities : [supports_json : BOOLEAN],
     default_model : {None, Some("gemini-2.5-flash"), Some("")}]

\* PromptRequest: model is None or not empty, execution_mode is one of three.
BuildRequests ==
    [agent : {"gemini"}, prompt : {"p", "--yolo"},
     model : {None, Some("gemini-2.5-pro")},
     execution_mode : {"default", "sandbox", "yolo"},
     file_refs : {<<>>, <<"a.py">>, <<"a.py", "--sandbox">>}]

BuildCalls == [fn : {"build_command"}, self : BuildRunners, request : BuildRequests]

CallBuildCommand ==
    /\ pc = "call"
    /\ call.fn = "build_command"
    /\ Return(build_command(call.self, call.request))

----------------------------------------------------------------------------
(* parser.py: _find_balanced_span, extract_last_json_array *)

\* The span found for a closing bracket at last_close: None when the loop
\* ends without depth having returned to 0.
BalancedSpan(text, open_char, close_char, last_close) ==
    IF MatchingOpen(text, open_char, close_char, last_close) = 0 - 1 THEN None
    ELSE Some(<<MatchingOpen(text, open_char, close_char, last_close), last_close>>)

_find_balanced_span(text, open_char, close_char, search_end) ==
    IF rfind(text, close_char, search_end) = 0 - 1 THEN None
    ELSE BalancedSpan(text, open_char, close_char, rfind(text, close_char, search_end))

RECURSIVE SpanLoop(_, _)

\* return parsed[0], or search_end = last_close and the next turn of the loop
SpanNext(text, last_close, found) ==
    IF isinstance(found, "NoneType") THEN SpanLoop(text, last_close) ELSE found

\* if span is None: return None; else the candidate text[start : last_close + 1]
SpanCandidate(text, span) ==
    IF IsNone(span) THEN PyNone
    ELSE SpanNext(text, Val(span)[2],
                  FirstDict(json_loads(Slice(text, Val(span)[1], Val(span)[2] + 1))))

\* while True of extract_last_json_array
SpanLoop(text, search_end) ==
    SpanCandidate(text, _find_balanced_span(text, "[", "]", search_end))

extract_last_json_array(text) ==
    IF text = "" THEN PyNone ELSE SpanLoop(text, Len(text))

\* Variant: an object span that does not parse sends the search further left.
RECURSIVE ObjectOfSpan_retrying(_, _)
ObjectOfSpan_retrying(text, span) ==
    IF IsNone(span) THEN PyNone
    ELSE LET found == DictOrNone(json_loads(Slice(text, Val(span)[1], Val(span)[2] + 1)))
         IN  IF isinstance(found, "NoneType")
             THEN ObjectOfSpan_retrying(
                      text, _find_balanced_span(text, "{", "}", Val(span)[2]))
             ELSE found

\* if span is None: return None; else json.loads(text[start : end + 1]),
\* returned when it is a dict, None when it is not or does not parse
ObjectOfSpan(text, span) ==
    IF IsNone(span) THEN PyNone
    ELSE DictOrNone(json_loads(Slice(text, Val(span)[1], Val(span)[2] + 1)))

extract_last_json_object(text) ==
    IF text = "" THEN PyNone
    ELSE ObjectOfSpan(text, _find_balanced_span(text, "{", "}", Len(text)))

\* Texts with no object, one object and several, with text around them, with
\* braces that match nothing, with braces inside strings, with spans in
\* braces that are no JSON.
ObjectTexts ==
    Stdouts \cup Stderrs \cup
    { "no brace",
      "}",
      "{",
      "}{",
      "{}",
      "{1}",
      "{\"a\": 1}",
      "{\"a\": 1",
      "[{\"a\": 1}]",
      "{\"a\": 1} {\"b\": 2}",
      "{\"a\": 1} {bad}",
      "{\"a\": 1} }",
      "{ {\"a\": 1}",
      "log {\"a\": {\"b\": 2}} end",
      "{\"a\": \"}\"}",
      "{\"a\": \"{\"}" }

\* Texts with no array, one array and several, with text around them, with
\* arrays that do not qualify, with brackets that match nothing, and with
\* brackets inside strings.
ExtractTexts ==
    Stderrs \cup
    { "no json",
      "x]",
      "[]",
      "[1, 2]",
      "{\"a\": [1]}",
      "[{\"a\": 1}]",
      "[{\"a\": [1, 2]}]",
      "[[{\"a\": 1}]]",
      "[{\"a\": 1}] [{\"b\": 2}]",
      "log [{\"a\": 1}] then\n[{\"b\": 2}, 3] end",
      "[1] [{\"b\": 2}] [3]",
      "[{\"a\": 1}] []",
      "[{\"a\": 1}] x [object Object]",
      "[{\"a\": \"[object Object]\"}]",
      "[{\"a\": 1}] ]",
      "[{\"a\": 1}] 2]",
      "] [{\"a\": 1}]",
      "[{\"a\": 1}",
      "[{\"a\": 1}] [",
      "[{\"a\": \"]\"}]",
      "[{\"a\": \"[\"}]" }

ExtractCalls ==
    [fn : {"extract_last_json_array"}, text : ExtractTexts]
        \cup [fn : {"extract_last_json_object"}, text : ObjectTexts]

CallExtractLastJsonObject ==
    /\ pc = "call"
    /\ call.fn = "extract_last_json_object"
    /\ Return(extract_last_json_object(call.text))

CallExtractLastJsonArray ==
    /\ pc = "call"
    /\ call.fn = "extract_last_json_array"
    /\ Return(extract_last_json_array(call.text))

----------------------------------------------------------------------------
(* The loop of extract_last_json_array and of GeminiRunner._extract_last_json_array,
   one turn at a time *)

\* Variant: the search goes on from the bracket just examined, included.
NextSearchEnd_included(last_close) == last_close + 1

\* search_end = last_close
NextSearchEnd(last_close) == last_close

\* The function returns value, having examined the closing bracket at
\* last_close (none when last_close is -1).
LoopReturn(value, last_close) ==
    /\ ret' = value
    /\ pc' = "called"
    /\ frame' = [frame EXCEPT
                    !.examined = IF last_close = 0 - 1 THEN @ ELSE @ \cup {last_close}]
    /\ UNCHANGED <<BatchVars, call>>

\* The candidate ending at last_close did not qualify: the next turn
LoopRetry(last_close) ==
    /\ frame' = [search_end |-> NextSearchEnd(last_close),
                 examined |-> frame.examined \cup {last_close}]
    /\ UNCHANGED <<BatchVars, call, ret, pc>>

\* if not text: return None; search_end = len(text)
ArrayEnter ==
    /\ pc = "call"
    /\ call.fn \in {"extract_last_json_array", "_extract_last_json_array"}
    /\ frame' = [search_end |-> Len(call.text), examined |-> {}]
    /\ IF call.text = ""
       THEN ret' = PyNone /\ pc' = "called"
       ELSE ret' = ret /\ pc' = "loop"
    /\ UNCHANGED <<BatchVars, call>>

\* The indices of the closing brackets of text
ClosingBrackets(text) == {k \in 0..(Len(text) - 1) : Char(text, k + 1) = "]"}

\* parsed[0] of json.loads(text[start : last_close + 1]) for the closing
\* brackets of the texts: json.loads depends on the candidate only, so that
\* its values are computed once for all turns.
CandidateMapping ==
    [text \in ExtractTexts |->
        [last_close \in ClosingBrackets(text) |->
            ArrayCandidate(text, MatchingOpen(text, "[", "]", last_close), last_close)]]

\* One turn of `while True` of parser.extract_last_json_array
ArrayTurn ==
    /\ pc = "loop"
    /\ call.fn = "extract_last_json_array"
    /\ \E span \in {_find_balanced_span(call.text, "[", "]", frame.search_end)} :
          IF IsNone(span)
          THEN LoopReturn(PyNone, rfind(call.text, "]", frame.search_end))
          ELSE \E found \in {CandidateMapping[call.text][Val(span)[2]]} :
                  IF isinstance(found, "NoneType")
                  THEN LoopRetry(Val(span)[2])
                  ELSE LoopReturn(found, Val(span)[2])

\* One turn of `while True` of GeminiRunner._extract_last_json_array
GeminiArrayTurn ==
    /\ pc = "loop"
    /\ call.fn = "_extract_last_json_array"
    /\ \E last_close \in {rfind(call.text, "]", frame.search_end)} :
          IF last_close = 0 - 1
          THEN LoopReturn(PyNone, last_close)
          ELSE \E found \in {CandidateMapping[call.text][last_close]} :
                  IF isinstance(found, "NoneType")
                  THEN LoopRetry(last_close)
                  ELSE LoopReturn(found, last_close)

LoopCalls ==
    [fn : {"extract_last_json_array", "_extract_last_json_array"}, text : ExtractTexts]

LoopInit ==
    /\ NoBatch
    /\ pc = "call"
    /\ call \in LoopCalls
    /\ ret = None

NextLoop ==
    \/ ArrayEnter
    \/ ArrayTurn
    \/ GeminiArrayTurn

\* The function is straight code without awaits: once called it runs on.
SpecLoop == LoopInit /\ [][NextLoop]_vars /\ WF_vars(NextLoop)

----------------------------------------------------------------------------
(* Direct calls of RunnerFactory.create *)

\* Names: the key of the registry, the key in other letter cases and with
\* blanks around it, parts of it, other agents, the empty name.
AgentNames ==
    {"gemini", "Gemini", "GEMINI", "gemini ", " gemini", "gemin", "gemini2",
     "codex", "claude", "GeminiRunner", ""}

CreateCalls == [fn : {"create"}, agent : AgentNames, env : Environments]

CreateInit ==
    /\ NoBatch
    /\ pc = "call"
    /\ call \in CreateCalls
    /\ ret = None

CallCreate ==
    /\ pc = "call"
    /\ call.fn = "create"
    /\ ret' = RunnerFactory_create(call.agent, call.env)
    /\ frame' = [steps |-> create_steps(call.agent, call.env)]
    /\ pc' = "called"
    /\ UNCHANGED <<BatchVars, call>>

----------------------------------------------------------------------------
(* cli_detector.py: supports_json_output, get_cli_capabilities *)

\* The position of the first ch of text, 0 when it holds none
FirstOf(text, ch) ==
    Min({Len(text) + 1} \cup {k \in 1..Len(text) : Char(text, k) = ch}) % (Len(text) + 1)

\* version.split("-")[0]
BeforeDash(version) ==
    IF FirstOf(version, "-") = 0 THEN version
    ELSE SubSeq(version, 1, FirstOf(version, "-") - 1)

\* The length of the longest prefix of text made of digits and dots that
\* ends with a digit
ReleaseEnd(text) ==
    Max({0} \cup {k \in 1..Len(text) :
                    /\ IsDigit(Char(text, k))
                    /\ \A j \in 1..k : Char(text, j) = "." \/ IsDigit(Char(text, j))})

\* The numbers of a release segment N(.N)*; None when text is none
RECURSIVE ReleaseNumbers(_)
ReleaseRest(head, rest) ==
    IF head = "" \/ ~AllDigits(head) \/ IsNone(rest) THEN None
    ELSE Some(<<DigitsValue(head, 0)>> \o Val(rest))

ReleaseNumbers(text) ==
    IF FirstOf(text, ".") = 0
    THEN (IF text # "" /\ AllDigits(text) THEN Some(<<DigitsValue(text, 0)>>) ELSE None)
    ELSE ReleaseRest(SubSeq(text, 1, FirstOf(text, ".") - 1),
                     ReleaseNumbers(SubSeq(text, FirstOf(text, ".") + 1, Len(text))))

\* The letters of the development, pre- and post-release segments of
\* packaging.version, with their place in the order of versions of one
\* release: dev < a < b < rc < (no segment) < post.
SegmentRank ==
    [dev |-> 0, a |-> 1, alpha |-> 1, b |-> 2, beta |-> 2,
     c |-> 3, rc |-> 3, pre |-> 3, preview |-> 3, post |-> 5, rev |-> 5, r |-> 5]

FinalRank == 4

\* text without one leading separator
AfterSeparator(text) ==
    IF text # "" /\ Char(text, 1) \in {".", "_"} THEN SubSeq(text, 2, Len(text)) ELSE text

\* The letters that text starts with and that digits alone follow, an
\* optional separator between them
SegmentLetters(text) ==
    {w \in DOMAIN SegmentRank :
        /\ StartsWith(text, 1, w)
        /\ AllDigits(AfterSeparator(SubSeq(text, Len(w) + 1, Len(text))))}

\* The segment after the release: Some(<<rank, number>>), None when it is
\* no segment of a version.
SegmentOf(text) ==
    IF text = "" THEN Some(<<FinalRank, 0>>)
    ELSE IF SegmentLetters(AfterSeparator(text)) = {} THEN None
    ELSE Some(<<SegmentRank[CHOOSE w \in SegmentLetters(AfterSeparator(text)) : TRUE],
                DigitsValue(AfterSeparator(SubSeq(AfterSeparator(text),
                    Len(CHOOSE w \in SegmentLetters(AfterSeparator(text)) : TRUE) + 1,
                    Len(AfterSeparator(text)))), 0)>>)

\* The release with its trailing zeros dropped (packaging.version._cmpkey)
RECURSIVE StripZeros(_)
StripZeros(numbers) ==
    IF numbers # <<>> /\ numbers[Len(numbers)] = 0
    THEN StripZeros(SubSeq(numbers, 1, Len(numbers) - 1))
    ELSE numbers

VersionOf(numbers, segment) ==
    IF IsNone(numbers) \/ IsNone(segment) THEN None
    ELSE Some([release |-> StripZeros(Val(numbers)), segment |-> Val(segment)])

\* packaging.version.parse(text) for a text without "-": an optional "v", a
\* release and at most one development, pre- or post-release segment in
\* small letters; Some(version), or None for InvalidVersion. Epochs, local
\* versions and several segments are not modelled.
pkg_version_parse(text) ==
    IF text # "" /\ Char(text, 1) = "v"
    THEN VersionOf(ReleaseNumbers(SubSeq(text, 2, ReleaseEnd(SubSeq(text, 2, Len(text))) + 1)),
                   SegmentOf(SubSeq(text, ReleaseEnd(SubSeq(text, 2, Len(text))) + 2, Len(text))))
    ELSE VersionOf(ReleaseNumbers(SubSeq(text, 1, ReleaseEnd(text))),
                   SegmentOf(SubSeq(text, ReleaseEnd(text) + 1, Len(text))))

\* a < b for tuples of numbers, as Python orders tuples
RECURSIVE TupleLess(_, _)
TupleLess(a, b) ==
    IF b = <<>> THEN FALSE
    ELSE IF a = <<>> THEN TRUE
    ELSE IF a[1] # b[1] THEN a[1] < b[1]
    ELSE TupleLess(Tail(a), Tail(b))

\* The first digit of the decimal numeral of n
RECURSIVE LeadingDigit(_)
LeadingDigit(n) == IF n < 10 THEN n ELSE LeadingDigit(n \div 10)

\* Variant: the numbers of a release are ordered as texts are, by their
\* first digits.
VersionAtLeast_textual(v, required) ==
    \/ TupleLess([k \in DOMAIN required.release |-> LeadingDigit(required.release[k])],
                 [k \in DOMAIN v.release |-> LeadingDigit(v.release[k])])
    \/ v.release = required.release /\ ~TupleLess(v.segment, required.segment)

\* v >= required
VersionAtLeast(v, required) ==
    \/ TupleLess(required.release, v.release)
    \/ v.release = required.release /\ ~TupleLess(v.segment, required.segment)

\* pkg_version.parse("0.6.0")
RequiredVersion == [release |-> <<0, 6>>, segment |-> <<FinalRank, 0>>]

supports_json_output(cli, version) ==
    IF cli = "gemini"
    THEN /\ ~IsNone(pkg_version_parse(BeforeDash(version)))
         /\ VersionAtLeast(Val(pkg_version_parse(BeforeDash(version))), RequiredVersion)
    ELSE cli \in {"codex", "claude"}

CLICapabilities(found, supports_json, supports_model_flag, fallback_to_text) ==
    [found |-> found, supports_json |-> supports_json,
     supports_model_flag |-> supports_model_flag, fallback_to_text |-> fallback_to_text]

\* version: None, or Some(text)
get_cli_capabilities(cli, version) ==
    IF IsNone(version) THEN CLICapabilities(FALSE, FALSE, FALSE, FALSE)
    ELSE CLICapabilities(TRUE, supports_json_output(cli, Val(version)), TRUE,
                         ~supports_json_output(cli, Val(version)))

\* Versions as parse_version extracts them (N.N.N, N.N.N-suffix), texts that
\* are no version, and versions of other shapes.
VersionTexts ==
    { "0.6.0", "0.6.1", "0.12.0", "0.5.0", "0.5.9", "0.10.0", "0.9.9", "1.0.0",
      "2.0.0", "0.0.0", "0.6.00", "00.06.00", "10.0.0", "0.60.0", "0.06.0",
      "0.6.0-preview.4", "0.12.0-rc.1", "0.5.9-preview.1", "0.5.9-1", "0.6.0-",
      "0.6.0-nightly.20250101.abc", "0.5.0-0.6.0", "1.0.0-beta-2",
      "", "abc", "-0.6.0", "1.x.0", "0..6", "0.6.", ".6.0", "0.6.0 1", "0.6.0x",
      "0.6", "1", "0", "0.6.0.0", "0.6.0.1", "v0.6.0", "v0.5.9",
      "0.6.0rc1", "0.6.0a1", "0.6.0.dev1", "0.6.0.post1", "0.6.1rc1", "0.7.0b2",
      "0.5.9.post3", "0.6.0preview", "0.6.0_rc_1" }

CapabilityCalls ==
    [fn : {"get_cli_capabilities"}, cli : {"gemini", "codex", "claude", "unknown"},
     version : {None} \cup {Some(v) : v \in VersionTexts}]

CallGetCliCapabilities ==
    /\ pc = "call"
    /\ call.fn = "get_cli_capabilities"
    /\ Return(get_cli_capabilities(call.cli, call.version))

----------------------------------------------------------------------------
(* Direct calls *)

CallsInit ==
    /\ NoBatch
    /\ pc = "call"
    /\ call \in ParseCalls \cup BuildCalls \cup ExtractCalls \cup CapabilityCalls
    /\ ret = None

NextCalls ==
    \/ CallParseOutput
    \/ CallBuildCommand
    \/ CallExtractLastJsonArray
    \/ CallExtractLastJsonObject
    \/ CallGetCliCapabilities

SpecCalls == CallsInit /\ [][NextCalls]_vars

----------------------------------------------------------------------------
(* Specifications *)

Init == BatchInit \/ TypesInit \/ CreateInit

Next ==
    \/ BatchNext
    \/ CallAgentTaskResult
    \/ CallMultiPromptResponse
    \/ CallCreate

Spec == Init /\ [][Next]_vars

NextLabels == CallAssignLabels

SpecLabels == LabelsInit /\ [][NextLabels]_vars

----------------------------------------------------------------------------
(* Properties *)

Done(i) == i \in DOMAIN task_pc /\ task_pc[i] = "done"

Label(i) == Val(labelled[i].label)

\* The result task i's own execution calls for.
OwnResult(i) ==
    IF IsException(task_outcome[i])
    THEN [label |-> Label(i), output |-> None, error |-> Some(task_outcome[i].message)]
    ELSE [label |-> Label(i), output |-> Some(task_outcome[i].output), error |-> None]

Failed(i) == Done(i) /\ IsException(task_outcome[i])

Succeeded(i) == Done(i) /\ ~IsException(task_outcome[i])

\* C1: with max_concurrency >= 1, the tasks that hold a slot of the gate
\* (building their runner or awaiting run()) never number more than
\* max_concurrency.
C1_ConcurrencyBound ==
    max_concurrency >= 1 => Cardinality(InFlight) <= max_concurrency

\* Three tasks under max_concurrency = 2: two in flight, the third queued.
C1_Witness ==
    /\ Len(tasks) = 3
    /\ max_concurrency = 2
    /\ Cardinality(InFlight) = 2
    /\ \E i \in DOMAIN task_pc : task_pc[i] = "waiting"

\* C2: an exception raised for a task while its runner is built or by run()
\* becomes that task's result, with the task's label and the exception's
\* message as error; batch_prompt raises none of them, and the other tasks
\* are neither stopped nor changed by it: the batch can always go on.
C2_FailureIsolation ==
    /\ \A i \in DOMAIN task_pc : Failed(i) => task_result[i] = OwnResult(i)
    /\ pc = "raised" => \A i \in DOMAIN task_pc : ~Failed(i)
    /\ (pc = "gather" /\ \E i \in DOMAIN task_pc : Failed(i)) => ENABLED BatchNext
    /\ pc = "returned" =>
          \A i \in DOMAIN task_pc : response.results[i] = OwnResult(i)

\* A batch that returned with a task that timed out next to one that succeeded
\* and one whose runner could not be built.
C2_Witness ==
    /\ pc = "returned"
    /\ \E i, j, k \in DOMAIN task_pc :
          /\ Failed(i) /\ task_outcome[i].exc = "SubprocessTimeoutError"
          /\ Failed(j) /\ task_outcome[j].exc = "UnsupportedAgentError"
          /\ Succeeded(k) /\ k > i

\* C3: the results of the response are in input order: results[i] has the
\* label given to input task i and the outcome of that task's execution,
\* whatever the order in which the tasks finished.
C3_InputOrder ==
    pc = "returned" =>
        /\ Len(response.results) = Len(tasks)
        /\ \A i \in DOMAIN tasks :
              /\ response.results[i].label = Label(i)
              /\ response.results[i] = OwnResult(i)

\* A batch of three that returned although the first task finished last.
C3_Witness ==
    /\ pc = "returned"
    /\ completed = <<2, 3, 1>>
    /\ response.results[1] # response.results[3]

\* C4: set_total is called at most once, with the task count, and before any
\* task is dispatched or any increment is issued; each task issues one
\* increment when it finishes, failed or not, never more; at return the
\* increments number exactly the tasks.
C4_Progress ==
    /\ Len(progress.set_total) <= 1
    /\ (progress.increments > 0 \/ \E i \in DOMAIN task_pc : task_pc[i] # "pending")
          => progress.set_total = <<Len(tasks)>>
    /\ pc \in {"gather", "returned"} => progress.set_total = <<Len(tasks)>>
    /\ progress.increments <= Len(tasks)
    /\ \A i \in DOMAIN task_pc :
          progress.by_task[i] = IF task_pc[i] = "done" THEN 1 ELSE 0
    /\ progress.increments = Cardinality({i \in DOMAIN task_pc : task_pc[i] = "done"})
    /\ pc = "returned" => progress.increments = Len(tasks)

\* A returned batch of three with a failed and a succeeded task.
C4_Witness ==
    /\ pc = "returned"
    /\ Len(tasks) = 3
    /\ progress.increments = 3
    /\ \E i, j \in DOMAIN task_pc : Failed(i) /\ Succeeded(j)

\* C5: a task whose run() returned a response has a result with that
\* response's output and no error, counted as a success.
C5_SuccessKept ==
    /\ \A i \in DOMAIN task_pc : Succeeded(i) =>
          /\ task_result[i].output = Some(task_outcome[i].output)
          /\ IsNone(task_result[i].error)
          /\ success(task_result[i])
    /\ pc = "returned" =>
          /\ \A i \in DOMAIN task_pc : Succeeded(i) =>
                /\ response.results[i].output = Some(task_outcome[i].output)
                /\ IsNone(response.results[i].error)
          /\ response.succeeded = Cardinality({i \in DOMAIN task_pc : Succeeded(i)})

\* A returned batch in which a run() returned the empty output.
C5_Witness ==
    /\ pc = "returned"
    /\ \E i \in DOMAIN task_pc : Succeeded(i) /\ task_outcome[i].output = ""
    /\ \E i \in DOMAIN task_pc : Succeeded(i) /\ task_outcome[i].output = "out"

WellFormed(r) ==
    /\ r.total = Len(r.results)
    /\ r.succeeded = Cardinality({i \in DOMAIN r.results : ~IsNone(r.results[i].output)})
    /\ r.succeeded + r.failed = r.total

\* C6: batch_prompt never raises and, as long as it has not returned, can
\* always take a step (every run() terminating); what it returns holds one
\* result per input task. Stated for every integer max_concurrency.
C6_AlwaysReturns ==
    /\ pc # "raised"
    /\ pc \in {"start", "gather"} => ENABLED BatchNext
    /\ pc = "returned" => WellFormed(response) /\ response.total = Len(tasks)

\* C7: a MultiPromptResponse has total = len(results), succeeded = the number
\* of results with an output, succeeded + failed = total; counts passed to the
\* constructor are ignored; the response of a batch has total = the number of
\* input tasks, an empty batch total = 0 and no results.
C7_ComputedCounts ==
    /\ pc = "returned" =>
          /\ WellFormed(response)
          /\ response.total = Len(tasks)
          /\ tasks = <<>> => response.total = 0 /\ response.results = <<>>
    /\ (pc = "called" /\ call.fn = "MultiPromptResponse") =>
          /\ ~IsException(ret)
          /\ ret.results = call.results
          /\ WellFormed(ret)

\* A response built from two results with counts that are not theirs.
C7_Witness ==
    /\ pc = "called"
    /\ call.fn = "MultiPromptResponse"
    /\ Len(call.results) = 2
    /\ call.total = 7 /\ call.succeeded = 7 /\ call.failed = 1
    /\ ret.succeeded = 1 /\ ret.failed = 1

ExactlyOne(r) == IsNone(r.output) # IsNone(r.error)

\* C8: an AgentTaskResult has exactly one of output and error, and success
\* exactly when the output is set; the constructor rejects both and neither;
\* so it is for every result batch_prompt builds.
C8_ExactlyOne ==
    /\ \A i \in DOMAIN task_pc : Done(i) =>
          /\ ~IsException(task_result[i])
          /\ ExactlyOne(task_result[i])
          /\ success(task_result[i]) <=> ~IsException(task_outcome[i])
    /\ pc = "returned" => \A i \in DOMAIN response.results :
          ExactlyOne(response.results[i])
    /\ (pc = "called" /\ call.fn = "AgentTaskResult") =>
          /\ IsException(ret) <=> (IsNone(call.output) = IsNone(call.error))
          /\ ~IsException(ret) =>
                /\ ret = [label |-> call.label, output |-> call.output, error |-> call.error]
                /\ ExactlyOne(ret)
                /\ success(ret) <=> IsNone(ret.error)

\* The constructor rejected a result with an output and an error.
C8_Witness ==
    /\ pc = "called"
    /\ call.fn = "AgentTaskResult"
    /\ ~IsNone(call.output) /\ ~IsNone(call.error)
    /\ IsException(ret)

Distinct(labels) ==
    \A i, j \in DOMAIN labels : i # j => labels[i] # labels[j]

\* C9: after label assignment no two tasks of a batch have the same label,
\* so no two results of the response have.
C9_UniqueLabels ==
    /\ pc \in {"gather", "returned"} =>
          Distinct([i \in DOMAIN labelled |-> labelled[i].label])
    /\ pc = "returned" =>
          Distinct([i \in DOMAIN response.results |-> response.results[i].label])

\* The labels reserved when the loop reaches task i: every explicit label of
\* the list, and the labels given to the unlabelled tasks before i.
ReservedAt(ts, out, i) ==
    {Val(ts[j].label) : j \in {k \in DOMAIN ts : ts[k].label # None}}
        \cup {Val(out[j].label) : j \in {k \in 1..(i - 1) : ts[k].label = None}}

\* C10: the output has the length and order of the input and a label on every
\* task; a labelled task is returned as it is; an unlabelled one gets its
\* agent name if that is not reserved, else agent-n for the least n >= 2
\* with agent-n not reserved.
C10_LabelAssignment ==
    (pc = "called" /\ call.fn = "_assign_labels") =>
        LET ts == call.tasks
        IN  /\ Len(ret) = Len(ts)
            /\ \A i \in DOMAIN ts :
                  /\ ret[i].label # None
                  /\ [ret[i] EXCEPT !.label = None] = [ts[i] EXCEPT !.label = None]
                  /\ ts[i].label # None => ret[i] = ts[i]
                  /\ ts[i].label = None =>
                        LET R == ReservedAt(ts, ret, i)
                            a == ts[i].agent
                        IN  IF a \notin R
                            THEN ret[i].label = Some(a)
                            ELSE \E n \in 2..(Len(ts) + 2) :
                                    /\ ret[i].label = Some(a \o "-" \o ToString(n))
                                    /\ a \o "-" \o ToString(n) \notin R
                                    /\ \A m \in 2..(n - 1) :
                                          a \o "-" \o ToString(m) \in R

\* An unlabelled task ahead of the task that claims its agent name
\* explicitly, and a probe that has to skip a reserved suffix.
C10_Witness ==
    /\ pc = "called"
    /\ call.fn = "_assign_labels"
    /\ Len(call.tasks) = 3
    /\ call.tasks[1].label = None /\ call.tasks[1].agent = "gemini"
    /\ call.tasks[2].label = Some("gemini-2")
    /\ call.tasks[3].label = Some("gemini")
    /\ ret[1].label = Some("gemini-3")

LabelsOf(ts) == [i \in DOMAIN ts |-> ts[i].label]

AllLabelled(ts) == \A i \in DOMAIN ts : ts[i].label # None

utf8_len(text) == Len(encode(text))

Limited(r) == "truncated" \in DOMAIN r.metadata.v

\* C13: an output longer than the configured limit is returned, notice
\* included, in at most that many UTF-8 bytes.
C13_WithinLimit ==
    (/\ pc = "called"
     /\ call.fn = "_apply_output_limit"
     /\ ~IsException(get_global_output_limit(call.environ))
     /\ utf8_len(call.response.output) > get_global_output_limit(call.environ).value)
        => utf8_len(ret.output) <= get_global_output_limit(call.environ).value

\* C14: a response within the limit is returned as it is, and limiting the
\* result of limiting returns that result.
C14_LimitIdempotent ==
    (/\ pc = "called"
     /\ call.fn = "_apply_output_limit"
     /\ ~IsException(get_global_output_limit(call.environ)))
        => /\ utf8_len(call.response.output)
                  <= get_global_output_limit(call.environ).value
              => (ret = call.response /\ ~Limited(ret))
           /\ \A name \in TempFileNames :
                 _apply_output_limit(ret, call.environ, name) = ret

(* run() has returned or raised *)
RunEnded == pc = "called" /\ call.fn = "run"

(* run() has returned or raised after run_subprocess returned a result *)
RunDone == RunEnded /\ ~IsNone(frame.result)

ExitCode == Val(frame.result).returncode

Stdout == Val(frame.result).stdout

Stderr == Val(frame.result).stderr

\* What parsing stdout as on the success path gives.
Parsed == parse_output(Stdout, Stderr)

\* stdout as a JSON value, PyNone when it is no JSON
StdoutData ==
    LET loaded == json_loads(Stdout)
    IN  IF IsNone(loaded) THEN PyNone ELSE Val(loaded)

Recovers ==
    /\ RunDone
    /\ call.self.recovery = "GeminiRunner"
    /\ ExitCode # 0
    /\ ~IsException(Parsed)

RecoveryMarkers == {"recovered_from_error", "original_exit_code", "stderr"}

TruncationMarkers ==
    {"truncated", "full_output_path", "original_size_bytes", "truncated_size_bytes"}

Limit == get_global_output_limit(call.environ)

Contains(text, word) ==
    \E i \in 1..(Len(text) - Len(word) + 1) : SubSeq(text, i, i + Len(word) - 1) = word

EndsWith(text, word) ==
    Len(text) >= Len(word) /\ SubSeq(text, Len(text) - Len(word) + 1, Len(text)) = word

\* C12: a response that run() returns left _apply_output_limit as the last
\* step, after parse_output or after _recover_from_error had marked it; it is
\* truncated when it was over the limit, and a recovered one then carries
\* the recovery markers and the truncation markers.
C12_LimitedLast ==
    (RunDone /\ ~IsException(ret)) =>
        LET before == Val(frame.response)
            over   == utf8_len(before.output) > Limit.value
        IN  /\ frame.steps =
                  <<"build_command", "run_subprocess",
                    IF ExitCode = 0 THEN "parse_output" ELSE "_recover_from_error",
                    "_apply_output_limit">>
            /\ \E name \in TempFileNames :
                  ret = _apply_output_limit(before, call.environ, name)
            /\ ExitCode # 0 <=> RecoveryMarkers \subseteq DOMAIN before.metadata.v
            /\ DOMAIN before.metadata.v \subseteq DOMAIN ret.metadata.v
            /\ over <=> TruncationMarkers \subseteq DOMAIN ret.metadata.v
            /\ (ExitCode # 0 /\ over) =>
                  (RecoveryMarkers \cup TruncationMarkers) \subseteq DOMAIN ret.metadata.v

\* A recovered response over the limit, returned with both sets of markers.
C12_Witness ==
    /\ RunDone
    /\ ~IsException(ret)
    /\ ExitCode = 1
    /\ Stdout = LongStdout
    /\ (RecoveryMarkers \cup TruncationMarkers) \subseteq DOMAIN ret.metadata.v
    /\ ret.output # Val(frame.response).output

\* C15 as stated: after a non-zero exit with a stdout that parses as on the
\* success path, run() returns the parsed agent, output and raw_output with
\* the parsed stats and the three recovery markers as metadata.
C15_AsStated ==
    Recovers =>
      LET parsed == Parsed
      IN
        /\ ~IsException(ret)
        /\ ret.agent = parsed.agent
        /\ ret.output = parsed.output
        /\ ret.raw_output = parsed.raw_output
        /\ \A k \in DOMAIN parsed.metadata.v \ RecoveryMarkers :
              ret.metadata.v[k] = parsed.metadata.v[k]
        /\ RecoveryMarkers \subseteq DOMAIN ret.metadata.v
        /\ ret.metadata.v["recovered_from_error"] = PyBool(TRUE)
        /\ ret.metadata.v["original_exit_code"] = PyInt(ExitCode)
        /\ ret.metadata.v["stderr"] = PyStr(Stderr)

\* C15: after a non-zero exit with a stdout that parses as on the success
\* path, run() returns the parsed agent and raw_output, the parsed stats and
\* the three recovery markers; the output is the parsed output when that is
\* within the output limit, and else its truncation, marked as truncated.
\* Only an invalid output limit makes run() fail, with a ConfigurationError.
C15_Recovered ==
    Recovers =>
      LET parsed == Parsed
          limit  == Limit
      IN
        IF IsException(limit)
        THEN ret = limit /\ ret.exc = "ConfigurationError"
        ELSE /\ ~IsException(ret)
             /\ ret.agent = parsed.agent
             /\ ret.raw_output = parsed.raw_output
             /\ \A k \in DOMAIN parsed.metadata.v \ RecoveryMarkers :
                   ret.metadata.v[k] = parsed.metadata.v[k]
             /\ RecoveryMarkers \subseteq DOMAIN ret.metadata.v
             /\ ret.metadata.v["recovered_from_error"] = PyBool(TRUE)
             /\ ret.metadata.v["original_exit_code"] = PyInt(ExitCode)
             /\ ret.metadata.v["stderr"] = PyStr(Stderr)
             /\ IF utf8_len(parsed.output) <= limit.value
                THEN /\ ret.output = parsed.output
                     /\ DOMAIN ret.metadata.v =
                            DOMAIN parsed.metadata.v \cup RecoveryMarkers
                ELSE /\ EndsWith(ret.output, suffix)
                     /\ TruncationMarkers \subseteq DOMAIN ret.metadata.v
                     /\ ret.metadata.v["truncated"] = PyBool(TRUE)
                     /\ ret.metadata.v["original_size_bytes"] =
                            PyInt(utf8_len(parsed.output))
                     /\ DOMAIN ret.metadata.v =
                            DOMAIN parsed.metadata.v \cup RecoveryMarkers
                                \cup TruncationMarkers

\* Exit code 2, a stdout with a response and an error field, stats and a
\* captured stderr: the response is returned, marked as recovered.
C15_Witness ==
    /\ Recovers
    /\ ~IsException(ret)
    /\ ExitCode = 2
    /\ isinstance(StdoutData, "dict")
    /\ "error" \in DOMAIN StdoutData.v
    /\ Stderr = "boom"
    /\ ret.output = "ok"
    /\ ret.metadata.v["original_exit_code"] = PyInt(2)

\* A structured error: a mapping under "error" that is not the artifact of a
\* stringified object.
IsArtifact(error) ==
    /\ isinstance(dict_get(error, "code", PyNone), "int")
    /\ dict_get(error, "code", PyNone).v = 1
    /\ isinstance(dict_get(error, "message", PyNone), "str")
    /\ dict_get(error, "message", PyNone).v = "[object Object]"

HasErrorMapping(data) ==
    /\ isinstance(data, "dict")
    /\ isinstance(dict_get(data, "error", PyNone), "dict")

HasStructuredError(data) ==
    HasErrorMapping(data) /\ ~IsArtifact(dict_get(data, "error", PyNone))

\* The structured error object of stderr: the first element of its last JSON
\* array, or else its last JSON object.
StderrData ==
    LET first == _extract_last_json_array(Stderr)
    IN  IF ~isinstance(first, "NoneType") THEN first
        ELSE _extract_last_json_object(Stderr)

\* Recovery is not possible: non-zero exit and no success response in stdout.
Unrecovered ==
    /\ RunDone
    /\ call.self.recovery = "GeminiRunner"
    /\ ExitCode # 0
    /\ LET parsed == Parsed
       IN  IsException(parsed) /\ parsed.exc = "ParseError"

\* The fields present in an error mapping appear in the message.
NamesError(message, error) ==
    /\ Contains(message, "Gemini API error")
    /\ \A f \in {"code", "message", "status"} \cap DOMAIN error.v :
          Contains(message, format(error.v[f]))

\* C16: a non-zero exit with a stdout that is a JSON object holding a
\* structured error makes run() raise a SubprocessError whose message says
\* "Gemini API error" and holds the code, the message and the status.
C16_StructuredError ==
    Unrecovered =>
        LET data == StdoutData
        IN  HasStructuredError(data) =>
                /\ ret.exc = "SubprocessError"
                /\ NamesError(ret.message, data.v["error"])

\* C17: the failure raised for a structured error carries the exit code, the
\* whole stdout, the stderr and the command that run() built and executed.
C17_ErrorContext ==
    (Unrecovered /\ HasStructuredError(StdoutData)) =>
        /\ ret.exc = "SubprocessError"
        /\ ret.returncode = Some(ExitCode)
        /\ "stdout" \in DOMAIN ret
        /\ ret.stdout = Stdout
        /\ ret.stderr = Stderr
        /\ ret.command = Some(frame.command)

\* C18: when stdout holds neither a success response nor a structured error
\* and stderr holds a structured error object, bare or as the first element
\* of an array, run() raises the structured error and not the generic one.
C18_StderrFallback ==
    Unrecovered =>
        LET data == StderrData
        IN  (~HasStructuredError(StdoutData) /\ HasStructuredError(data)) =>
                /\ ret.exc = "SubprocessError"
                /\ NamesError(ret.message, data.v["error"])

\* C19: with a structured error in stdout and another in stderr, the failure
\* reports the one of stdout.
C19_StdoutFirst ==
    Unrecovered =>
        LET out == StdoutData
            err == StderrData
        IN  (/\ HasStructuredError(out)
             /\ HasStructuredError(err)
             /\ err # out) =>
                /\ ret.exc = "SubprocessError"
                /\ NamesError(ret.message, out.v["error"])
                /\ ~NamesError(ret.message, err.v["error"])

\* The object _try_extract_error looks into: stdout when it is a JSON
\* object, else the error object of stderr.
Examined ==
    LET data == StdoutData
    IN  IF isinstance(data, "dict") THEN data ELSE StderrData

\* C20: when the error examined has code 1 and the message "[object Object]",
\* run() raises the generic SubprocessError, with the exit code, the stderr
\* and the command, and no structured-error text.
C20_ArtifactIsGeneric ==
    (/\ Unrecovered
     /\ LET data == Examined
        IN  /\ HasErrorMapping(data)
            /\ IsArtifact(dict_get(data, "error", PyNone))) =>
        /\ ret.exc = "SubprocessError"
        /\ ret.message = "CLI command failed with exit code " \o ToString(ExitCode)
        /\ ~Contains(ret.message, "Gemini API error")
        /\ ~Contains(ret.message, "[object Object]")
        /\ ret.returncode = Some(ExitCode)
        /\ ret.stderr = Stderr
        /\ ret.command = Some(frame.command)

\* The artifact in stderr, after a log line, with a stdout that is no JSON.
C20_Witness ==
    /\ Unrecovered
    /\ ExitCode = 2
    /\ Stdout = "not json"
    /\ HasErrorMapping(StderrData)
    /\ IsArtifact(dict_get(StderrData, "error", PyNone))
    /\ ret.exc = "SubprocessError"
    /\ Len(frame.command) > Len(<<"gemini", "-p", "p">>)

----------------------------------------------------------------------------
(* run_subprocess *)

ProcDone == pc = "called" /\ call.fn = "run_subprocess"

\* C27: when the timeout passes while the process is still running, the
\* process is killed and awaited before anything is raised; what is raised
\* then is a SubprocessTimeoutError with the timeout, the command and the
\* exit status collected after the kill, and the process has ended.
C27_KilledThenRaised ==
    /\ (call.fn = "run_subprocess" /\ pc = "wait") =>
          /\ ret = None
          /\ frame.process.state # "running"
    /\ (ProcDone /\ frame.at_timeout = Some("running")) =>
          /\ IsException(ret)
          /\ ret.exc = "SubprocessTimeoutError"
          /\ ret.timeout = Val(call.timeout)
          /\ ret.command = Some(call.command)
          /\ ret.returncode = Some(SIGKILLED)
          /\ ret.returncode = frame.process.returncode
          /\ frame.process.state \in {"reaped", "closed"}
          /\ frame.steps = <<"create_subprocess_exec", "TimeoutError", "kill", "wait">>

\* A process that would have ended with status 1 is killed at the timeout.
C27_Witness ==
    /\ ProcDone
    /\ frame.at_timeout = Some("running")
    /\ call.process.returncode = 1
    /\ ret.exc = "SubprocessTimeoutError"
    /\ ret.returncode = Some(SIGKILLED)
    /\ ret.message = "Command timed out after 600s: gemini"

\* C28: run_subprocess returns a SubprocessResult or raises a
\* SubprocessError (or SubprocessTimeoutError) that carries the command; a
\* missing binary and a denied permission give different errors, and a
\* decode error carries stderr decoded with replacement characters.
C28_TypedErrors ==
    ProcDone =>
        IF ~IsException(ret)
        THEN /\ call.spawn = "spawned"
             /\ DOMAIN ret = {"stdout", "stderr", "returncode"}
             /\ encode(ret.stdout) = call.process.stdout
             /\ encode(ret.stderr) = call.process.stderr
        ELSE /\ ret.exc \in {"SubprocessError", "SubprocessTimeoutError"}
             /\ ret.command = Some(call.command)
             /\ call.spawn = "ENOENT" =>
                    ret.message = "Command not found: " \o call.command[1]
             /\ call.spawn = "EACCES" =>
                    ret.message = "Permission denied: " \o call.command[1]
             /\ (call.spawn = "spawned" /\ ret.exc = "SubprocessError") =>
                    /\ IsException(decode(call.process.stdout))
                           \/ IsException(decode(call.process.stderr))
                    /\ ret.stderr = decode_replace(call.process.stderr)

----------------------------------------------------------------------------
(* run(): the generic failure, the outcomes, the steps *)

\* C21: after a non-zero exit, with a stdout that parse_output takes for no
\* success response and no structured error in stdout or stderr, and after
\* every non-zero exit for a runner with the recovery of AbstractRunner,
\* run() raises the generic SubprocessError: its message names the exit
\* code and no API error, and it carries the exit code, the stderr and the
\* command.
C21_GenericFailure ==
    (\/ /\ Unrecovered
        /\ ~HasStructuredError(StdoutData)
        /\ ~HasStructuredError(StderrData)
     \/ /\ RunDone
        /\ ExitCode # 0
        /\ call.self.recovery = "AbstractRunner") =>
        /\ ret.exc = "SubprocessError"
        /\ ret.message = "CLI command failed with exit code " \o ToString(ExitCode)
        /\ ~Contains(ret.message, "Gemini API error")
        /\ ret.returncode = Some(ExitCode)
        /\ ret.stderr = Stderr
        /\ ret.command = Some(frame.command)
        /\ frame.steps = <<"build_command", "run_subprocess", "_recover_from_error">>

\* A GeminiRunner on a stdout that is an array and a stderr of plain text
C21_Witness ==
    /\ Unrecovered
    /\ call.self.recovery = "GeminiRunner"
    /\ ExitCode = 2
    /\ Stdout = "[1, 2]"
    /\ Stderr = "boom"
    /\ ret.exc = "SubprocessError"
    /\ ret.returncode = Some(2)
    /\ ret.stderr = "boom"
    /\ ret.command = Some(<<"/opt/gemini", "-p",
                            "p\n\nFile references:\n- a.py\n- b.py",
                            "--model", "gemini-2.5-pro", "--yolo">>)

\* C22: run() returns an AgentResponse or raises SubprocessError (which
\* SubprocessTimeoutError is) or ParseError, and nothing else.
C22_TypedOutcomes ==
    RunEnded =>
        IF IsException(ret)
        THEN ret.exc \in {"SubprocessError", "SubprocessTimeoutError", "ParseError"}
        ELSE DOMAIN ret = {"agent", "output", "raw_output", "metadata"}

Times(steps, step) == Cardinality({i \in DOMAIN steps : steps[i] = step})

\* C23: a call of run() builds the command once and executes it once; it
\* attempts recovery once when the subprocess returned a non-zero exit code,
\* on the output of that one execution, and not otherwise.
C23_ExecutedOnce ==
    (call.fn = "run" /\ pc # "call") =>
        /\ Times(frame.steps, "build_command") = 1
        /\ frame.steps[1] = "build_command"
        /\ Times(frame.steps, "run_subprocess") = IF pc = "built" THEN 0 ELSE 1
        /\ Times(frame.steps, "_recover_from_error") <= 1
        /\ pc \in {"limiting", "called"} =>
              (Times(frame.steps, "_recover_from_error") = 1
                   <=> (~IsNone(frame.result) /\ ExitCode # 0))
        /\ (pc = "limiting" /\ ExitCode # 0) =>
              Val(frame.response) =
                  self_recover_from_error(call.self, Stdout, Stderr, ExitCode, None)

\* A failed command whose stdout held a response: one execution, one recovery.
C23_Witness ==
    /\ RunDone
    /\ ExitCode = 1
    /\ ~IsException(ret)
    /\ frame.steps = <<"build_command", "run_subprocess", "_recover_from_error",
                       "_apply_output_limit">>

----------------------------------------------------------------------------
(* parse_output *)

ParseCalled == pc = "called" /\ call.fn = "parse_output"

\* What parse_output takes for the data: stdout as JSON, or, when stdout is no
\* JSON, the last JSON object found in it (PyNone when there is none).
ParseSubject ==
    LET loaded == json_loads(call.stdout)
    IN  IF IsNone(loaded) THEN _extract_last_json_object(call.stdout)
        ELSE Val(loaded)

\* The data is a mapping with a response that is a string.
HasResponse(data) ==
    /\ isinstance(data, "dict")
    /\ "response" \in DOMAIN data.v
    /\ isinstance(data.v["response"], "str")

\* C24: parse_output raises ParseError exactly when stdout is no JSON and
\* holds no JSON object, or the value is no mapping, or has no response key,
\* or its response is no string; the error carries the stdout. Valid JSON
\* of another shape fails even when it holds a response object inside.
C24_ParseFailures ==
    ParseCalled =>
        LET loaded == json_loads(call.stdout)
            data   == ParseSubject
        IN  /\ (IsException(ret) /\ ret.exc = "ParseError") <=> ~HasResponse(data)
            /\ ~HasResponse(data) => ret.raw_output = call.stdout
            /\ (~IsNone(loaded) /\ ~HasResponse(Val(loaded))) =>
                  (IsException(ret) /\ ret.exc = "ParseError")
            /\ (IsNone(loaded) /\ isinstance(data, "NoneType")) =>
                  ret = ParseError("Invalid JSON from Gemini CLI (stdout may contain non-JSON prefix)",
                                   call.stdout)

\* A valid JSON array holding a response object: no fallback, a ParseError.
C24_Witness ==
    /\ ParseCalled
    /\ call.stdout = "[{\"response\": \"in\"}]"
    /\ _extract_last_json_object(call.stdout) = PyDict([response |-> PyStr("in")])
    /\ ret.exc = "ParseError"
    /\ ret.raw_output = call.stdout

\* out is text without the whitespace at its two ends.
Trimmed(text, out) ==
    \E i \in 1..(Len(text) + 1), j \in 0..Len(text) :
        /\ out = SubSeq(text, i, j)
        /\ \A k \in (1..(i - 1)) \cup ((j + 1)..Len(text)) : Char(text, k) \in Whitespace
        /\ out # "" => (Char(out, 1) \notin Whitespace /\ Char(out, Len(out)) \notin Whitespace)

\* C25: for a mapping with a string response, found directly or after a noisy
\* prefix, parse_output returns the response without the whitespace at its
\* two ends as output and the stdout as raw_output; the metadata is the
\* stats mapping when stats is a mapping and empty when there is no stats.
C25_Response ==
    (ParseCalled /\ HasResponse(ParseSubject)) =>
        LET data  == ParseSubject
            stats == dict_get(data, "stats", PyNone)
        IN  /\ ("stats" \notin DOMAIN data.v \/ isinstance(stats, "dict")) =>
                  /\ ~IsException(ret)
                  /\ ret.agent = "gemini"
                  /\ Trimmed(data.v["response"].v, ret.output)
                  /\ ret.raw_output = call.stdout
                  /\ ret.metadata = (IF "stats" \in DOMAIN data.v THEN stats ELSE EmptyDict)
            /\ ~IsException(ret) => Trimmed(data.v["response"].v, ret.output)

\* The example: {"response": "  hi  ", "stats": {"n": 3}}
C25_Witness ==
    /\ ParseCalled
    /\ call.stdout = "{\"response\": \"  hi  \", \"stats\": {\"n\": 3}}"
    /\ ret.output = "hi"
    /\ ret.raw_output = call.stdout
    /\ ret.metadata = PyDict([n |-> PyInt(3)])

----------------------------------------------------------------------------
(* build_command *)

BuildCalled == pc = "called" /\ call.fn = "build_command"

\* The model selected: that of the request, else the configured default
SelectedModel(self, request) ==
    IF ~IsNone(request.model) THEN request.model
    ELSE IF ~IsNone(self.default_model) /\ Val(self.default_model) # ""
    THEN self.default_model
    ELSE None

\* The flag of an execution mode
ModeFlag(execution_mode) ==
    IF execution_mode = "sandbox" THEN <<"--sandbox">>
    ELSE IF execution_mode = "yolo" THEN <<"--yolo">>
    ELSE <<>>

\* C26: the command is cli_path, "-p" and the prompt text, then
\* "--output-format json" exactly when the capabilities support JSON, then
\* "--model m" exactly when a model is selected, then the flag of the
\* execution mode, and nothing else; not both mode flags; file references
\* are in the prompt text and add no argument.
C26_CommandShape ==
    BuildCalled =>
        LET self     == call.self
            request  == call.request
            selected == SelectedModel(self, request)
            flags    == SubSeq(ret, 4, Len(ret))
        IN  /\ Len(ret) >= 3
            /\ SubSeq(ret, 1, 2) = <<self.cli_path, "-p">>
            /\ StartsWith(ret[3], 1, request.prompt)
            /\ request.file_refs = <<>> => ret[3] = request.prompt
            /\ \A i \in DOMAIN request.file_refs :
                  Contains(ret[3], "- " \o request.file_refs[i])
            /\ flags =
                  (IF self.capabilities.supports_json
                   THEN <<"--output-format", "json">> ELSE <<>>)
                  \o (IF IsNone(selected) THEN <<>> ELSE <<"--model", Val(selected)>>)
                  \o ModeFlag(request.execution_mode)
            /\ Count(flags, LAMBDA a : a \in {"--sandbox", "--yolo"}) <= 1
            /\ Len(ret) = Len(build_command(self, [request EXCEPT !.file_refs = <<>>]))

\* All parts at once: JSON, the model of the request before the default,
\* sandbox, two file references in the prompt text.
C26_Witness ==
    /\ BuildCalled
    /\ call.self.default_model = Some("gemini-2.5-flash")
    /\ ret = <<"/opt/gemini", "-p", "p\n\nFile references:\n- a.py\n- --sandbox",
               "--output-format", "json", "--model", "gemini-2.5-pro", "--sandbox">>

----------------------------------------------------------------------------
(* RunnerFactory.create *)

CreateCalled == pc = "called" /\ call.fn = "create"

\* The work that comes after the lookup of the name
AfterLookup ==
    {"GeminiRunner.__init__", "detect_cli", "get_cli_version", "subprocess.run"}

\* C29: for every name other than "gemini", letter for letter, create raises
\* UnsupportedAgentError with the name, having done the lookup and nothing
\* else, whether or not the CLI is installed; in a batch a task with such a
\* name is never awaiting run() and ends with the error as its result.
C29_UnsupportedAgent ==
    /\ (CreateCalled /\ call.agent # "gemini") =>
          /\ IsException(ret)
          /\ ret.exc = "UnsupportedAgentError"
          /\ ret.agent = call.agent
          /\ ret.message = "Unsupported agent: " \o call.agent
          /\ frame.steps = <<"_REGISTRY.get">>
          /\ \A k \in DOMAIN frame.steps : frame.steps[k] \notin AfterLookup
    /\ \A i \in DOMAIN task_pc :
          labelled[i].agent # "gemini" =>
              /\ task_pc[i] # "running"
              /\ Done(i) =>
                    /\ Failed(i)
                    /\ task_outcome[i].exc = "UnsupportedAgentError"
                    /\ task_outcome[i].agent = labelled[i].agent
                    /\ task_result[i].output = None
                    /\ task_result[i].error
                           = Some("Unsupported agent: " \o labelled[i].agent)

\* create("Gemini") on a host without the CLI: the name is rejected
C29_Witness ==
    /\ CreateCalled
    /\ call.agent = "Gemini"
    /\ call.env = "cli_missing"
    /\ ret = [exc |-> "UnsupportedAgentError", message |-> "Unsupported agent: Gemini",
              agent |-> "Gemini"]
    /\ frame.steps = <<"_REGISTRY.get">>

\* A returned batch whose second task named the agent codex
C29_BatchWitness ==
    /\ pc = "returned"
    /\ Len(tasks) = 3
    /\ labelled[2].agent = "codex"
    /\ response.results[2].error = Some("Unsupported agent: codex")
    /\ \E i \in DOMAIN task_pc : Succeeded(i)

----------------------------------------------------------------------------
(* extract_last_json_array *)

ExtractCalled == pc = "called" /\ call.fn = "extract_last_json_array"

\* The first element of text[i : j + 1] when that is a bracket span that
\* parses as a non-empty array with a mapping first, else PyNone
SpanValue(text, i, j) ==
    IF Char(text, i + 1) = "[" /\ Char(text, j + 1) = "]"
    THEN FirstDict(json_loads(Slice(text, i, j + 1)))
    ELSE PyNone

\* The bracket spans of text that qualify, as pairs of first and last index
Qualifying(text) ==
    {span \in (0..(Len(text) - 1)) \X (0..(Len(text) - 1)) :
        /\ span[1] < span[2]
        /\ ~isinstance(SpanValue(text, span[1], span[2]), "NoneType")}

\* C30: extract_last_json_array returns the first element of the rightmost
\* bracket span that parses as a non-empty array with a mapping first, and
\* None only when the text has no such span.
C30_RightmostQualifying ==
    ExtractCalled =>
        LET spans == Qualifying(call.text)
        IN  IF spans = {} THEN isinstance(ret, "NoneType")
            ELSE \E span \in spans :
                    /\ \A other \in spans : other[2] <= span[2]
                    /\ isinstance(ret, "dict")
                    /\ ret = SpanValue(call.text, span[1], span[2])

\* The closing brackets of text, each with the opening bracket that the count
\* of depth gives it (-1 when it has none)
DepthMatched(text) ==
    {<<MatchingOpen(text, "[", "]", j), j>> :
        j \in {k \in 0..(Len(text) - 1) : Char(text, k + 1) = "]"}}

\* What the function does for a text in which the count of depth gives every
\* closing bracket an opening one: it returns the first element of the
\* rightmost such pair that qualifies, and None when no pair does.
C30_DepthMatched ==
    (ExtractCalled /\ \A span \in DepthMatched(call.text) : span[1] # 0 - 1) =>
        LET spans == DepthMatched(call.text) \cap Qualifying(call.text)
        IN  IF spans = {} THEN isinstance(ret, "NoneType")
            ELSE \E span \in spans :
                    /\ \A other \in spans : other[2] <= span[2]
                    /\ isinstance(ret, "dict")
                    /\ ret = SpanValue(call.text, span[1], span[2])

\* Two arrays separated by text: the first element of the right one
C30_RightArray ==
    /\ ExtractCalled
    /\ call.text = "[{\"a\": 1}] [{\"b\": 2}]"
    /\ isinstance(ret, "dict")
    /\ ret = PyDict([b |-> PyInt(2)])

----------------------------------------------------------------------------
(* extract_last_json_object *)

ObjectCalled == pc = "called" /\ call.fn = "extract_last_json_object"

\* The index of the last closing brace of text, -1 when it has none
LastBrace(text) == rfind(text, "}", Len(text))

\* C31: extract_last_json_object returns and does not raise. It returns None
\* for an empty text, for a text without a closing brace and when the count
\* of depth finds no opening brace for the last closing brace; otherwise it
\* returns what the span from that opening brace to the last closing brace
\* parses to when that is a mapping, and None when the span does not parse,
\* whatever objects lie further left.
C31_LastObjectOnly ==
    ObjectCalled =>
        LET text  == call.text
            close == LastBrace(text)
            open  == IF close = 0 - 1 THEN 0 - 1
                     ELSE MatchingOpen(text, "{", "}", close)
        IN  /\ ~IsException(ret)
            /\ isinstance(ret, "NoneType") \/ isinstance(ret, "dict")
            /\ (text = "" \/ close = 0 - 1 \/ open = 0 - 1) => isinstance(ret, "NoneType")
            /\ (text # "" /\ close # 0 - 1 /\ open # 0 - 1) =>
                  LET parsed == json_loads(Slice(text, open, close + 1))
                  IN  IF ~IsNone(parsed) /\ isinstance(Val(parsed), "dict")
                      THEN isinstance(ret, "dict") /\ ret = Val(parsed)
                      ELSE isinstance(ret, "NoneType")

\* An object followed by braces that hold no JSON: None, the object further
\* left is not tried.
C31_Witness ==
    /\ ObjectCalled
    /\ call.text = "{\"a\": 1} {bad}"
    /\ MatchingOpen(call.text, "{", "}", LastBrace(call.text)) = 9
    /\ isinstance(ret, "NoneType")

----------------------------------------------------------------------------
(* The extractors of GeminiRunner and of parser.py *)

\* Two results of an extractor are the same value.
SameValue(a, b) == a.t = b.t /\ a = b

\* C40: for every text GeminiRunner._extract_last_json_array returns what
\* parser.extract_last_json_array returns, and GeminiRunner.
\* _extract_last_json_object what parser.extract_last_json_object returns.
C40_SameExtractors ==
    /\ ExtractCalled => SameValue(_extract_last_json_array(call.text), ret)
    /\ ObjectCalled => SameValue(_extract_last_json_object(call.text), ret)

\* The two object extractors agree.
C40_SameObjects ==
    ObjectCalled => SameValue(_extract_last_json_object(call.text), ret)

\* The array extractors agree on the texts in which the count of depth gives
\* every closing bracket an opening one.
C40_SameArraysWhenMatched ==
    (ExtractCalled /\ \A span \in DepthMatched(call.text) : span[1] # 0 - 1) =>
        SameValue(_extract_last_json_array(call.text), ret)

----------------------------------------------------------------------------
(* The loop of extract_last_json_array *)

InLoop == pc = "loop" /\ call.fn \in {"extract_last_json_array", "_extract_last_json_array"}

\* A turn that is followed by another one: the search end moves left, to a
\* closing bracket that no turn has examined before.
RetryDecreases ==
    (InLoop /\ pc' = "loop") =>
        /\ frame'.search_end < frame.search_end
        /\ frame'.search_end \in ClosingBrackets(call.text) \ frame.examined
        /\ frame'.examined = frame.examined \cup {frame'.search_end}

\* No turn has examined something else than a closing bracket right of the
\* search end, and each turn examined another one.
ExaminedOnce ==
    (call.fn \in {"extract_last_json_array", "_extract_last_json_array"}
     /\ pc \in {"loop", "called"}) =>
        /\ frame.examined \subseteq ClosingBrackets(call.text)
        /\ pc = "loop" => \A k \in frame.examined : k >= frame.search_end
        /\ pc = "called" => (isinstance(ret, "NoneType") \/ isinstance(ret, "dict"))

\* C39: extract_last_json_array ends for every text: each retry moves the
\* search end strictly left, no closing bracket is examined by two turns of
\* the loop, and the call returns a mapping or None.
C39_Terminates ==
    /\ [][RetryDecreases]_vars
    /\ []ExaminedOnce
    /\ <>(pc = "called")

\* Three arrays, the right one and the middle one examined, the middle one
\* returned
C39_Witness ==
    /\ pc = "called"
    /\ call.fn = "extract_last_json_array"
    /\ call.text = "[1] [{\"b\": 2}] [3]"
    /\ frame.examined = {13, 17}
    /\ isinstance(ret, "dict")

\* The turns give what the functions give.
LoopGivesResult ==
    (pc = "called" /\ call.fn = "extract_last_json_array" =>
        SameValue(ret, extract_last_json_array(call.text)))
    /\ (pc = "called" /\ call.fn = "_extract_last_json_array" =>
        SameValue(ret, _extract_last_json_array(call.text)))

----------------------------------------------------------------------------
(* GeminiRunner.__init__ without the CLI *)

\* The work of the constructor that comes after detect_cli, and the work of run()
AfterDetection == {"get_cli_version", "subprocess.run", "build_command", "run"}

\* Task i ends in this step with CLINotFoundError
EndsNotFound(i) ==
    /\ i \in DOMAIN task_pc
    /\ task_pc[i] # "done"
    /\ task_pc'[i] = "done"
    /\ IsException(task_outcome'[i])
    /\ task_outcome'[i].exc = "CLINotFoundError"

\* C32: without the CLI on PATH the constructor raises CLINotFoundError with
\* the CLI's name right after detect_cli, with no version probe and no
\* subprocess; in a batch a task that ends with this error ends from the
\* construction of its runner, never from awaiting run(), and its result
\* carries the error.
C32_NotFoundAtConstruction ==
    /\ [](CreateCalled /\ call.agent \in _REGISTRY /\ call.env = "cli_missing" =>
            /\ IsException(ret)
            /\ ret.exc = "CLINotFoundError"
            /\ ret.cli_name = call.agent
            /\ Contains(ret.message, call.agent)
            /\ frame.steps = <<"_REGISTRY.get", "GeminiRunner.__init__", "detect_cli">>
            /\ \A k \in DOMAIN frame.steps : frame.steps[k] \notin AfterDetection)
    /\ [](CreateCalled /\ call.agent \in _REGISTRY /\ call.env = "ok" =>
            ~IsException(ret))
    /\ [](\A i \in DOMAIN task_pc :
            (Failed(i) /\ task_outcome[i].exc = "CLINotFoundError") =>
                /\ labelled[i].agent \in _REGISTRY
                /\ task_result[i].output = None
                /\ task_result[i].error = Some("CLI not found in PATH: gemini"))
    /\ [][\A i \in DOMAIN task_pc : EndsNotFound(i) => task_pc[i] = "acquired"]_vars

\* create("gemini") on a host without the CLI
C32_Witness ==
    /\ CreateCalled
    /\ call.agent = "gemini"
    /\ call.env = "cli_missing"
    /\ ret = [exc |-> "CLINotFoundError", message |-> "CLI not found in PATH: gemini",
              cli_name |-> "gemini"]
    /\ frame.steps[Len(frame.steps)] = "detect_cli"

\* A returned batch whose first task found no CLI and whose second task ran
C32_BatchWitness ==
    /\ pc = "returned"
    /\ Len(labelled) = 2
    /\ Failed(1)
    /\ task_outcome[1].exc = "CLINotFoundError"
    /\ Succeeded(2)

----------------------------------------------------------------------------
(* get_cli_capabilities *)

CapabilitiesCalled == pc = "called" /\ call.fn = "get_cli_capabilities"

\* The version text without what follows its first "-"
BaseVersion == BeforeDash(Val(call.version))

\* The base version is major.minor.patch, three numbers
IsMajorMinorPatch(base) ==
    /\ Len(base) >= 5
    /\ \A k \in 1..Len(base) : Char(base, k) = "." \/ IsDigit(Char(base, k))
    /\ Cardinality({k \in 1..Len(base) : Char(base, k) = "."}) = 2
    /\ ~IsNone(ReleaseNumbers(base))

\* major.minor.patch is 0.6.0 or later, the numbers compared as numbers
AtLeast_0_6_0(numbers) ==
    \/ numbers[1] > 0
    \/ numbers[1] = 0 /\ numbers[2] > 6
    \/ numbers[1] = 0 /\ numbers[2] = 6 /\ numbers[3] >= 0

\* C33: without a version nothing is found and no feature is on; with one,
\* found is true and fallback_to_text is the negation of supports_json; for
\* gemini a version whose text before the first "-" is major.minor.patch
\* supports JSON exactly when these numbers are at least 0.6.0 as numbers, and
\* a version that does not parse does not support it.
C33_Capabilities ==
    CapabilitiesCalled =>
        /\ IsNone(call.version) =>
              ret = [found |-> FALSE, supports_json |-> FALSE,
                     supports_model_flag |-> FALSE, fallback_to_text |-> FALSE]
        /\ ~IsNone(call.version) =>
              /\ ret.found
              /\ ret.fallback_to_text = ~ret.supports_json
              /\ (call.cli = "gemini" /\ IsMajorMinorPatch(BaseVersion)) =>
                    (ret.supports_json
                        <=> AtLeast_0_6_0(Val(ReleaseNumbers(BaseVersion))))
              /\ (call.cli = "gemini" /\ IsNone(pkg_version_parse(BaseVersion))) =>
                    ~ret.supports_json

\* 0.12.0-rc.1: 12 is more than 6, and the suffix does not count
C33_Witness ==
    /\ CapabilitiesCalled
    /\ call.cli = "gemini"
    /\ call.version = Some("0.12.0-rc.1")
    /\ ret = [found |-> TRUE, supports_json |-> TRUE,
              supports_model_flag |-> TRUE, fallback_to_text |-> FALSE]

\* A version that does not parse
C33_UnparseableWitness ==
    /\ CapabilitiesCalled
    /\ call.cli = "gemini"
    /\ call.version = Some("1.x.0")
    /\ ret.found
    /\ ~ret.supports_json
    /\ ret.fallback_to_text

----------------------------------------------------------------------------
(* prompt_agent and the batch of one *)

\* Both calls have ended
BothEnded ==
    /\ call.fn = "prompt_agent"
    /\ frame.pc \in {"returned", "raised"}
    /\ pc = "returned"

OnlyResult == response.results[1]

\* prompt_agent returns the output of the only result of the batch, and
\* raises, with the error text of that result, when the result is an error.
C34_SameOutcome ==
    BothEnded =>
        /\ response.total = 1
        /\ frame.pc = "returned" <=> success(OnlyResult)
        /\ frame.pc = "returned" => ret = OnlyResult.output
        /\ frame.pc = "raised" =>
              /\ IsException(ret)
              /\ OnlyResult.error = Some(str(ret))
              /\ ret = task_outcome[1]

\* C34: prompt_agent is a batch of one: it returns the output of the only
\* result of the batch or raises when that result is an error, and it reports
\* the progress that the batch reports.
C34_BatchOfOne ==
    /\ C34_SameOutcome
    /\ BothEnded => frame.progress = progress

\* Both calls ended well with the output "out"
C34_OutcomeWitness ==
    /\ BothEnded
    /\ frame.pc = "returned"
    /\ ret = Some("out")
    /\ OnlyResult.output = Some("out")
    /\ frame.progress.set_total = <<100>>
    /\ frame.progress.increments = 100
    /\ progress.set_total = <<1>>
    /\ progress.increments = 1

----------------------------------------------------------------------------
(* The configuration of a runner *)

\* A run() of the runner has begun
ConfigRan == call.fn = "GeminiRunner" /\ pc = "constructed" /\ ~IsNone(frame.uses)

\* What the run would use in the environment the runner was built in
UsesAtConstruction ==
    [command |-> build_command(GeminiRunner_init(frame.self.built_in), Val(frame.request)),
     timeout |-> configured_timeout(frame.self.built_in).value,
     limit |-> get_global_output_limit(frame.self.built_in)]

\* The timeout, the CLI path and the default model of every run() are the
\* ones of the environment the runner was built in.
C35_ReadAtConstruction ==
    ConfigRan =>
        /\ Val(frame.uses).command = UsesAtConstruction.command
        /\ Val(frame.uses).timeout = UsesAtConstruction.timeout

\* C35: the timeout, the output limit, the CLI path and the default model of
\* every run() are the ones of the environment the runner was built in,
\* whatever the environment has become since.
C35_ConfigFrozen ==
    ConfigRan => Val(frame.uses) = UsesAtConstruction

\* Built with no variable set; all four set before the run: the limit of
\* the run is the new one, the rest is as built
C35_LimitWitness ==
    /\ ConfigRan
    /\ frame.self.built_in = [NEXUS_TIMEOUT_SECONDS |-> None, NEXUS_OUTPUT_LIMIT_BYTES |-> None,
                              NEXUS_GEMINI_PATH |-> None, NEXUS_GEMINI_MODEL |-> None]
    /\ call.environ = [NEXUS_TIMEOUT_SECONDS |-> Some("5"), NEXUS_OUTPUT_LIMIT_BYTES |-> Some("60"),
                       NEXUS_GEMINI_PATH |-> Some("/opt/gemini"),
                       NEXUS_GEMINI_MODEL |-> Some("gemini-2.5-flash")]
    /\ Val(frame.uses) = [command |-> <<"gemini", "-p", "p", "--output-format", "json">>,
                          timeout |-> 600,
                          limit |-> [value |-> 60]]

----------------------------------------------------------------------------
(* The slots of the gate *)

Waiting == {i \in DOMAIN task_pc : task_pc[i] = "waiting"}

\* The gate exists: batch_prompt got past asyncio.Semaphore(max_concurrency)
Gated == pc \in {"gather", "returned"}

\* The slots are the free ones and the ones of the tasks in flight; the
\* waiting tasks are the ones queued at the gate; a task is only queued when
\* no slot is free; a returned batch left every slot free.
SlotsAccounted ==
    Gated =>
        /\ semaphore.value >= 0
        /\ semaphore.value + Cardinality(InFlight) = max_concurrency
        /\ Waiting = {semaphore.waiters[k] : k \in DOMAIN semaphore.waiters}
        /\ Waiting # {} => semaphore.value = 0
        /\ pc = "returned" =>
              /\ semaphore.value = max_concurrency
              /\ semaphore.waiters = <<>>
              /\ InFlight = {}

\* Task i ends in this step
Ends(i) == i \in DOMAIN task_pc /\ task_pc[i] # "done" /\ task_pc'[i] = "done"

\* A task gets its outcome (of the request, of the runner or of run()) only
\* when it holds a slot, and awaits run() only from holding one; when it
\* ends, failed or not, its slot goes to the task that waited longest, which
\* starts, or is free again when none waits.
SlotHeldAndReleased ==
    \A i \in DOMAIN task_pc :
        /\ (task_pc[i] # "running" /\ task_pc'[i] = "running") => task_pc[i] = "acquired"
        /\ Ends(i) =>
              /\ task_pc[i] \in {"acquired", "running"}
              /\ IF semaphore.waiters # <<>>
                 THEN /\ task_pc'[Head(semaphore.waiters)] = "acquired"
                      /\ semaphore'.waiters = Tail(semaphore.waiters)
                      /\ semaphore'.value = semaphore.value
                 ELSE semaphore'.value = semaphore.value + 1

\* C36: a task builds its request and its runner and awaits run() only while
\* it holds a slot of the gate; the slot is released when the task ends,
\* whether run() returned or something raised; the task that waited longest
\* starts when a task ends; after batch_prompt returned, all max_concurrency
\* slots are free.
C36_Gate ==
    /\ []SlotsAccounted
    /\ [][SlotHeldAndReleased]_vars

\* A returned batch of three under max_concurrency = 1 with a failed task
\* before a succeeded one: the slot went from task to task and is free
C36_Witness ==
    /\ pc = "returned"
    /\ Len(tasks) = 3
    /\ max_concurrency = 1
    /\ Failed(1)
    /\ Succeeded(3)
    /\ completed = <<1, 2, 3>>
    /\ semaphore = [value |-> 1, waiters |-> <<>>]

----------------------------------------------------------------------------
(* A task that AgentTask accepts and PromptRequest rejects *)

\* Task i has fields that PromptRequest rejects: a model or a prompt that
\* is the empty text
Rejected(i) == labelled[i].model = Some("") \/ labelled[i].prompt = ""

\* The tasks whose request is rejected never await run() and end with the
\* ValidationError as their result, whether or not their agent is known and
\* the CLI installed, with one progress increment; the other tasks end with
\* the result of their own execution.
RejectedIsolated ==
    \A i \in DOMAIN task_pc :
        /\ Rejected(i) =>
              /\ task_pc[i] # "running"
              /\ progress.by_task[i] = IF Done(i) THEN 1 ELSE 0
              /\ Done(i) =>
                    /\ task_outcome[i].exc = "ValidationError"
                    /\ task_result[i] = [label |-> Label(i), output |-> None,
                                         error |-> Some(str(task_outcome[i]))]
        /\ (~Rejected(i) /\ Done(i)) =>
              /\ task_result[i] = OwnResult(i)
              /\ IsException(task_outcome[i]) => task_outcome[i].exc # "ValidationError"

\* A rejected task ends in the step in which it was to build its request and
\* its runner, and no step of it changes the position or the result of
\* another task except for handing its slot to a waiting one.
RejectedStep ==
    \A i \in DOMAIN task_pc :
        (Rejected(i) /\ task_pc[i] = "acquired" /\ task_pc'[i] # "acquired") =>
            /\ task_pc'[i] = "done"
            /\ progress'.increments = progress.increments + 1
            /\ \A j \in DOMAIN task_pc \ {i} :
                  /\ task_result'[j] = task_result[j]
                  /\ task_outcome'[j] = task_outcome[j]
                  /\ task_pc'[j] = task_pc[j]
                        \/ (task_pc[j] = "waiting" /\ task_pc'[j] = "acquired")

\* C38: a task with a model that is the empty text is accepted by AgentTask
\* and rejected by PromptRequest: its result is the validation error, no
\* runner is built and nothing is run for it, it issues one progress
\* increment, and the results of the other tasks are their own.
C38_RejectedRequest ==
    /\ []RejectedIsolated
    /\ [][RejectedStep]_vars

\* A returned batch: the second task was rejected, the first and the third ran
C38_Witness ==
    /\ pc = "returned"
    /\ Len(tasks) = 3
    /\ Rejected(2)
    /\ ~Rejected(1)
    /\ ~Rejected(3)
    /\ Succeeded(1)
    /\ Succeeded(3)
    /\ response.results[2].error = Some("1 validation error for PromptRequest")
    /\ response.succeeded = 2
    /\ progress.by_task = <<1, 1, 1>>

----------------------------------------------------------------------------
(* run() after a non-zero exit *)

\* run() ended after the subprocess exited with a code other than 0
RunFailedExit == RunDone /\ ExitCode # 0

\* ret is a response marked as recovered
IsRecoveredResponse ==
    /\ ~IsException(ret)
    /\ "recovered_from_error" \in DOMAIN ret.metadata.v
    /\ ret.metadata.v["recovered_from_error"] = PyBool(TRUE)

\* ret is the SubprocessError of a structured API error
IsStructuredFailure ==
    /\ IsException(ret)
    /\ ret.exc = "SubprocessError"
    /\ Contains(ret.message, "Gemini API error")

\* ret is the generic SubprocessError
IsGenericFailure ==
    /\ IsException(ret)
    /\ ret.exc = "SubprocessError"
    /\ ret.message = "CLI command failed with exit code " \o ToString(ExitCode)

\* A ParseError leaves run() only after an exit code of 0.
NoParseErrorOnFailure ==
    (RunDone /\ IsException(ret) /\ ret.exc = "ParseError") => ExitCode = 0

\* C37: after a non-zero exit run() ends in exactly one of three ways: with a
\* response marked recovered_from_error, with the SubprocessError of a
\* structured error, or with the generic SubprocessError; a ParseError
\* leaves run() only after an exit code of 0.
C37_ThreeOutcomes ==
    /\ RunFailedExit =>
          Cardinality({k \in 1..3 :
                          \/ k = 1 /\ IsRecoveredResponse
                          \/ k = 2 /\ IsStructuredFailure
                          \/ k = 3 /\ IsGenericFailure}) = 1
    /\ NoParseErrorOnFailure

\* The outcomes after a non-zero exit are the three named and the TypeError
\* of the structured error, the ValidationError of stats that are no mapping
\* and the ConfigurationError of a limit that is no number.
OutcomesOnFailure ==
    RunFailedExit =>
        \/ IsRecoveredResponse
        \/ IsGenericFailure
        \/ IsException(ret) /\ ret.exc \in {"TypeError", "ValidationError", "ConfigurationError"}

\* A ParseError after exit code 0, on a stdout that is no JSON
ParseErrorWitness ==
    /\ RunDone
    /\ ExitCode = 0
    /\ Stdout = "not json"
    /\ IsException(ret)
    /\ ret.exc = "ParseError"

====
